---- MODULE Spec2Model ----
(***************************************************************************)
(* Model of the JobMatcher matching engine                                 *)
(* (app/services/matching_service.py, app/services/category_matching.py).  *)
(*                                                                         *)
(* Numbers.  The code computes with floats in [0, 1] and percentages in    *)
(* [0, 100].  Here a float x is the integer x * One, so every sub-score,   *)
(* weight product and percentage of the code is an exact integer; a        *)
(* percentage p is the integer p * One.  The arithmetic is the exact       *)
(* rational one: the last-bit error of IEEE doubles is not modelled.       *)
(*                                                                         *)
(* Strings are sequences of one-character strings, so that lower(),        *)
(* strip(), join() and the substring test `in` are computed as Python      *)
(* computes them.                                                          *)
(***************************************************************************)
EXTENDS Integers, Sequences, FiniteSets, TLC

\* ------------------------------------------------------------------------
\* Bounds of the model
\* ------------------------------------------------------------------------
\* salary bounds of a job range over None and 1..MaxSalary, the expectation
\* of a candidate over 0..MaxSalary + 1
MaxSalary == 1
\* a ranking call gets at most MaxBatch counterparts
MaxBatch == 3

\* ------------------------------------------------------------------------
\* Fixed point numbers
\* ------------------------------------------------------------------------
\* the float 1.0
One == 36 * 100
\* the percentage 100.0 (a percentage p is p * One)
Hundred == 100 * One
\* the percentage 0.01, the last digit round(x, 2) keeps
Cent == One \div 100

Max(a, b) == IF a >= b THEN a ELSE b
Min(a, b) == IF a <= b THEN a ELSE b

\* round(x, 2) of a percentage: to the nearest multiple of 0.01, a tie to
\* the even one
Round2(x) ==
    LET q == x \div Cent
        r == x % Cent
    IN  IF 2 * r < Cent THEN q * Cent
        ELSE IF 2 * r > Cent THEN (q + 1) * Cent
        ELSE IF q % 2 = 0 THEN q * Cent ELSE (q + 1) * Cent

\* Python's None where the other values are numbers
None == 0 - 1
\* Python's None where the other values are strings
NoneStr == "None"

\* ------------------------------------------------------------------------
\* Strings
\* ------------------------------------------------------------------------
LowerChar(c) ==
    CASE c = "A" -> "a"
      [] c = "C" -> "c"
      [] c = "E" -> "e"
      [] c = "H" -> "h"
      [] c = "P" -> "p"
      [] c = "Q" -> "q"
      [] OTHER -> c

\* str.lower()
lower(s) == [i \in 1..Len(s) |-> LowerChar(s[i])]

RECURSIVE lstrip(_)
lstrip(s) == IF Len(s) > 0 /\ s[1] = " " THEN lstrip(Tail(s)) ELSE s

RECURSIVE rstrip(_)
rstrip(s) ==
    IF Len(s) > 0 /\ s[Len(s)] = " " THEN rstrip(SubSeq(s, 1, Len(s) - 1)) ELSE s

\* str.strip()
strip(s) == rstrip(lstrip(s))

\* Python's `sub in s` on strings
contains(s, sub) ==
    \E i \in 0..(Len(s) - Len(sub)) : SubSeq(s, i + 1, i + Len(sub)) = sub

\* sep.join(parts)
RECURSIVE join(_, _)
join(sep, parts) ==
    IF Len(parts) = 0 THEN <<>>
    ELSE IF Len(parts) = 1 THEN parts[1]
    ELSE parts[1] \o sep \o join(sep, Tail(parts))

\* filter(None, parts): the non-empty strings of parts, in order
filter_none(parts) == SelectSeq(parts, LAMBDA p : Len(p) > 0)

\* {f(x) for x in xs} of a list xs
SetOfSeq(xs) == {xs[i] : i \in 1..Len(xs)}

\* all sequences over S of length at most n
SeqsUpTo(S, n) == UNION {[1..k -> S] : k \in 0..n}

\* ------------------------------------------------------------------------
\* Records: JobDB and CandidateDB
\* ------------------------------------------------------------------------
\* the characters " " and the texts the scorers compare
SP == <<" ">>

\* A JobDB.  Its texts are short so that every outcome of every scorer
\* occurs: "a" against " A" is an exact location, against "c" a different
\* one, "a b" contains "a"; the requirement "p q" is found only in the text
\* joined from two entries.
Job(title, location, salary_min, salary_max, requirements, advantages, required_languages, category, employment_type, certifications_required, shift_work, weekend_work) ==
    [id |-> 0, title |-> title, location |-> location, description |-> <<"d">>,
     category |-> category, employment_type |-> employment_type,
     salary_min |-> salary_min, salary_max |-> salary_max,
     requirements |-> requirements, advantages |-> advantages,
     required_languages |-> required_languages,
     certifications_required |-> certifications_required,
     shift_work |-> shift_work, weekend_work |-> weekend_work]

\* A CandidateDB.  salary_expectation = None is a record built without
\* validation (the field is a required float): the salary scorer raises
\* TypeError on it.
Candidate(name, location, experience, skills, languages, certifications, willing_to_work_shifts, willing_to_work_weekends, preferred_employment_type, salary_expectation) ==
    [id |-> 0, name |-> name, location |-> location, education |-> <<"e">>,
     experience |-> experience, skills |-> skills, languages |-> languages,
     certifications |-> certifications,
     willing_to_work_shifts |-> willing_to_work_shifts,
     willing_to_work_weekends |-> willing_to_work_weekends,
     preferred_employment_type |-> preferred_employment_type,
     salary_expectation |-> salary_expectation]

\* JobCategory: the six categories with weights of their own and one of
\* the seven that get the default weights
Categories ==
    {"Technology", "Retail", "Hospitality", "Healthcare", "Manufacturing",
     "Customer Service", "Other"}

SalaryBounds == {None} \cup (1..MaxSalary)
Expectations == {None} \cup (0..(MaxSalary + 1))
\* requirement lists: none, one, two of which one needs two joined entries
RequirementLists ==
    {<<>>, << <<"P">> >>, << <<"p", " ", "q">> >>,
     << <<"P">>, <<"p", " ", "q">> >>}

\* the jobs and candidates a single pair evaluation is tried on
Jobs ==
    {Job(<<"x">>, loc, smin, smax, reqs, adv, langs, "Other", "Full Time",
         <<>>, FALSE, FALSE) :
        loc \in {<<"a">>, <<"a", " ", "b">>},
        smin \in SalaryBounds, smax \in SalaryBounds,
        reqs \in RequirementLists,
        adv \in {<<>>, <<<<"q">>>>},
        langs \in {<<>>, << <<"E", "n">>, <<"h", "e">> >>}}

\* jobs whose text the provider fails on
UnencodableJobs ==
    {Job(<<"!">>, <<"a">>, None, None, reqs, <<>>, <<>>, "Other", "Full Time",
         <<>>, FALSE, FALSE) :
        reqs \in {<<>>, << <<"P">> >>}}

Candidates ==
    {Candidate(name, loc, exp, skills, << <<"e", "n">> >>, <<>>, FALSE, FALSE,
               NoneStr, sal) :
        name \in {<<"x">>, <<"y">>, <<"z">>, <<"!">>},
        loc \in {<<" ", "A">>, <<"c">>},
        exp \in {<<>>, << <<"p">> >>, << <<"p">>, <<"Q">> >>},
        skills \in {<<>>, << <<"q">> >>},
        sal \in Expectations}

\* ------------------------------------------------------------------------
\* Results of the scorers
\* ------------------------------------------------------------------------
\* a reason string: its icon, its texts (joined by " | " in the code) and
\* the numbers formatted into it
Reason(icon, text, args) == [icon |-> icon, text |-> text, args |-> args]

\* a scorer returns (score, reason), or raises
Ret(score, text, args) ==
    [exc |-> FALSE, score |-> score, text |-> text, args |-> args]
Raise == [exc |-> TRUE, score |-> 0, text |-> <<"TypeError">>, args |-> <<>>]

\* ------------------------------------------------------------------------
\* Embedding provider and semantic similarity
\* ------------------------------------------------------------------------
hypot(v) == CHOOSE n \in 0..10 : n * n = v[1] * v[1] + v[2] * v[2]

\* the injected model (MatchingService(model=...)): model.encode(text) of a
\* deterministic provider.  It maps a text to a vector by its first
\* character and fails on the texts that start with "!"
Encode(text) ==
    IF Len(text) > 0 /\ text[1] = "!" THEN [exc |-> TRUE, vec |-> <<0, 0>>]
    ELSE [exc |-> FALSE,
          vec |-> IF Len(text) = 0 THEN <<0, 1>>
                  ELSE CASE text[1] = "x" -> <<1, 0>>
                         [] text[1] = "y" -> <<3, 4>>
                         [] text[1] = "z" -> <<0 - 1, 0>>
                         [] OTHER -> <<0, 1>>]

\* util.pytorch_cos_sim(a, b).item(), in [-1, 1]
pytorch_cos_sim(a, b) ==
    (One * (a[1] * b[1] + a[2] * b[2])) \div (hypot(a) * hypot(b))

\* _get_embedding: the cached vector of a text is the one encode returned
\* for it, so a hit and a miss return the same vector; a miss raises what
\* encode raises
GetEmbedding(text) == Encode(text)

BuildJobText(job) ==
    join(SP, filter_none(<<job.title, job.location, job.description,
                           join(SP, job.requirements),
                           join(SP, job.advantages),
                           join(SP, job.required_languages)>>))

BuildCandidateText(candidate) ==
    join(SP, filter_none(<<candidate.name, candidate.location,
                           candidate.education,
                           join(SP, candidate.experience),
                           join(SP, candidate.languages),
                           join(SP, candidate.skills)>>))

\* max(0.0, min(1.0, similarity))
ClampSimilarity(similarity) == Max(0, Min(One, similarity))

\* a semantic score that takes a failed lookup for a perfect match
SimilarityOfFailureAsMatch(job_emb, cand_emb) ==
    IF job_emb.exc \/ cand_emb.exc THEN One
    ELSE ClampSimilarity(pytorch_cos_sim(job_emb.vec, cand_emb.vec))

\* the try body of _calculate_semantic_score after the two lookups
SimilarityOf(job_emb, cand_emb) ==
    IF job_emb.exc \/ cand_emb.exc THEN 0
    ELSE ClampSimilarity(pytorch_cos_sim(job_emb.vec, cand_emb.vec))

\* _calculate_semantic_score: any exception gives 0.0
CalculateSemanticScore(job, candidate) ==
    SimilarityOf(GetEmbedding(BuildJobText(job)),
                 GetEmbedding(BuildCandidateText(candidate)))

\* ------------------------------------------------------------------------
\* Rule scorers
\* ------------------------------------------------------------------------
LocationResult(job_loc, cand_loc) ==
    IF job_loc = cand_loc THEN Ret(One, <<"Exact location match">>, <<>>)
    ELSE IF contains(cand_loc, job_loc) \/ contains(job_loc, cand_loc)
    THEN Ret((8 * One) \div 10, <<"Partial location match">>, <<>>)
    ELSE Ret((3 * One) \div 10, <<"Different location">>, <<>>)

\* _score_location
ScoreLocation(job, candidate) ==
    LocationResult(strip(lower(job.location)), strip(lower(candidate.location)))

\* _score_salary without its comparison with salary_max
\* a salary scorer that rejects an expectation equal to a bound
SalaryResultBoundRejected(salary_min, salary_max, expectation) ==
    IF salary_min = None /\ salary_max = None
    THEN Ret(One \div 2, <<"No salary constraints">>, <<>>)
    ELSE IF expectation = None THEN Raise
    ELSE IF salary_min # None /\ expectation <= salary_min
    THEN Ret(0, <<"Below minimum salary">>, <<expectation, salary_min>>)
    ELSE IF salary_max # None /\ expectation >= salary_max
    THEN Ret(0, <<"Above maximum salary">>, <<expectation, salary_max>>)
    ELSE Ret(One, <<"Salary in range">>, <<salary_min, salary_max>>)

SalaryResultNoMaximum(salary_min, salary_max, expectation) ==
    IF salary_min = None /\ salary_max = None
    THEN Ret(One \div 2, <<"No salary constraints">>, <<>>)
    ELSE IF salary_min # None /\ expectation = None THEN Raise
    ELSE IF salary_min # None /\ expectation < salary_min
    THEN Ret(0, <<"Below minimum salary">>, <<expectation, salary_min>>)
    ELSE IF salary_min # None /\ salary_max # None
    THEN Ret(One, <<"Salary in range">>, <<salary_min, salary_max>>)
    ELSE IF salary_max # None
    THEN Ret(One, <<"Below maximum salary">>, <<salary_max>>)
    ELSE Ret(One, <<"Above minimum salary">>, <<salary_min>>)

\* the comparisons of _score_salary with the expectation; `expectation <
\* salary_min` and `expectation > salary_max` raise TypeError when the
\* expectation is None
SalaryResult(salary_min, salary_max, expectation) ==
    IF salary_min = None /\ salary_max = None
    THEN Ret(One \div 2, <<"No salary constraints">>, <<>>)
    ELSE IF salary_min # None /\ expectation = None THEN Raise
    ELSE IF salary_min # None /\ expectation < salary_min
    THEN Ret(0, <<"Below minimum salary">>, <<expectation, salary_min>>)
    ELSE IF salary_max # None /\ expectation = None THEN Raise
    ELSE IF salary_max # None /\ expectation > salary_max
    THEN Ret(0, <<"Above maximum salary">>, <<expectation, salary_max>>)
    ELSE IF salary_min # None /\ salary_max # None
    THEN Ret(One, <<"Salary in range">>, <<salary_min, salary_max>>)
    ELSE IF salary_max # None
    THEN Ret(One, <<"Below maximum salary">>, <<salary_max>>)
    ELSE IF salary_min # None
    THEN Ret(One, <<"Above minimum salary">>, <<salary_min>>)
    ELSE Ret(One \div 2, <<"Salary not specified">>, <<>>)

\* _score_salary
ScoreSalary(job, candidate) ==
    SalaryResult(job.salary_min, job.salary_max, candidate.salary_expectation)

\* the text the requirements and the advantages are searched in
CombinedText(candidate) ==
    lower(join(SP, candidate.experience)) \o SP \o lower(join(SP, candidate.skills))

\* the number of entries of items found in the text
MatchedCount(items, combined_text) ==
    Cardinality({i \in 1..Len(items) : contains(combined_text, lower(items[i]))})

\* the result of _score_requirements for k of n requirements matched
RequirementsResult(k, n) ==
    IF k = n THEN Ret(One, <<"Meets all requirements">>, <<n>>)
    ELSE IF (k * One) \div n > 0
    THEN Ret((k * One) \div n, <<"Meets requirements">>, <<k, n>>)
    ELSE Ret(0, <<"No requirements met">>, <<>>)

\* _score_requirements
ScoreRequirements(job, candidate) ==
    IF Len(job.requirements) = 0
    THEN Ret(One, <<"No requirements specified">>, <<>>)
    ELSE RequirementsResult(
             MatchedCount(job.requirements, CombinedText(candidate)),
             Len(job.requirements))

\* the result of _score_advantages for k of n advantages matched:
\* bonus_per_match = 0.2, capped at 1.0
AdvantagesResult(k, n) ==
    IF k > 0
    THEN Ret(Min(One, k * ((2 * One) \div 10)), <<"Has nice-to-haves">>, <<k, n>>)
    ELSE Ret(0, <<"No advantages matched">>, <<>>)

\* _score_advantages
ScoreAdvantages(job, candidate) ==
    IF Len(job.advantages) = 0
    THEN Ret(0, <<"No advantages specified">>, <<>>)
    ELSE AdvantagesResult(
             MatchedCount(job.advantages, CombinedText(candidate)),
             Len(job.advantages))

\* the languages as they are typed
TypedSet(langs) == SetOfSeq(langs)

\* {lang.lower().strip() for lang in langs}
NormalizedSet(langs) == {strip(lower(l)) : l \in SetOfSeq(langs)}

\* the result of _score_languages for the matched ones of the required set
LanguagesResult(matched, required) ==
    IF matched = required
    THEN Ret(One, <<"Speaks all required languages">>, <<>>)
    ELSE IF matched > 0
    THEN Ret((matched * One) \div required, <<"Speaks required languages">>,
             <<matched, required>>)
    ELSE Ret(0, <<"Missing required languages">>, <<>>)

\* _score_languages
ScoreLanguages(job, candidate) ==
    IF Len(job.required_languages) = 0
    THEN Ret(0, <<"No language requirements">>, <<>>)
    ELSE LanguagesResult(
             Cardinality(NormalizedSet(job.required_languages)
                         \cap NormalizedSet(candidate.languages)),
             Cardinality(NormalizedSet(job.required_languages)))

\* ------------------------------------------------------------------------
\* Default rule score
\* ------------------------------------------------------------------------
\* SEMANTIC_WEIGHT = 0.6 and RULE_WEIGHT = 0.4, in tenths
SEMANTIC_WEIGHT == 6
RULE_WEIGHT == 4
\* LOCATION_MAX = SALARY_MAX = REQUIREMENTS_MAX = 1.0
LOCATION_MAX == One
SALARY_MAX == One
REQUIREMENTS_MAX == One

\* ScoringBreakdown
ScoringBreakdown(location_match, salary_match, requirements_match, advantages_match, language_match, semantic_similarity) ==
    [location_match |-> location_match, salary_match |-> salary_match,
     requirements_match |-> requirements_match,
     advantages_match |-> advantages_match,
     language_match |-> language_match,
     semantic_similarity |-> semantic_similarity]

\* max(0.0, min(1.0, total_with_bonus))
ClampRuleScoreNoCeiling(total_with_bonus) == Max(0, total_with_bonus)
ClampRuleScore(total_with_bonus) == Max(0, Min(One, total_with_bonus))

\* an aggregation that leaves the bonuses out
AggregateRuleScoreNoBonus(breakdown) ==
    ClampRuleScore((breakdown.location_match + breakdown.salary_match
                    + breakdown.requirements_match) \div 3)

\* core_score / 3.0 + (adv_score + lang_score) * 0.1, clamped
AggregateRuleScore(breakdown) ==
    ClampRuleScore(
        (breakdown.location_match + breakdown.salary_match
         + breakdown.requirements_match) \div 3
        + (breakdown.advantages_match + breakdown.language_match) \div 10)

\* the reasons of _calculate_rule_score: location, salary, requirements,
\* the advantages if they score, the languages if they score or are required
RuleReasons(job, loc, sal, req, adv, lang) ==
    <<Reason("location", loc.text, loc.args),
      Reason("salary", sal.text, sal.args),
      Reason("requirements", req.text, req.args)>>
    \o (IF adv.score > 0
        THEN <<Reason("advantages", adv.text, adv.args)>> ELSE <<>>)
    \o (IF lang.score > 0 \/ Len(job.required_languages) > 0
        THEN <<Reason("languages", lang.text, lang.args)>> ELSE <<>>)

\* what _calculate_rule_score returns
RuleScoreReturn(breakdown, reasons) ==
    [exc |-> FALSE, rule_score |-> AggregateRuleScore(breakdown),
     breakdown |-> {breakdown}, reasons |-> reasons]

\* _calculate_rule_score after the five scorers
RuleScoreOf(job, loc, sal, req, adv, lang) ==
    IF loc.exc \/ sal.exc \/ req.exc \/ adv.exc \/ lang.exc
    THEN [exc |-> TRUE, rule_score |-> 0, breakdown |-> {}, reasons |-> <<>>]
    ELSE RuleScoreReturn(
             ScoringBreakdown((loc.score * LOCATION_MAX) \div One,
                              (sal.score * SALARY_MAX) \div One,
                              (req.score * REQUIREMENTS_MAX) \div One,
                              adv.score, lang.score, 0),
             RuleReasons(job, loc, sal, req, adv, lang))

\* _calculate_rule_score: (final_rule_score, breakdown, reasons), or the
\* exception of a scorer
CalculateRuleScore(job, candidate) ==
    RuleScoreOf(job, ScoreLocation(job, candidate), ScoreSalary(job, candidate),
                ScoreRequirements(job, candidate),
                ScoreAdvantages(job, candidate),
                ScoreLanguages(job, candidate))

\* ------------------------------------------------------------------------
\* Match evaluator
\* ------------------------------------------------------------------------
\* MatchResult; breakdown is the set of at most one ScoringBreakdown (None
\* is the empty set)
MatchResult(candidate, job, score, semantic_score, rule_score, breakdown, match_reasons) ==
    [candidate |-> candidate, job |-> job, score |-> score,
     semantic_score |-> semantic_score, rule_score |-> rule_score,
     breakdown |-> breakdown, match_reasons |-> match_reasons]

RejectedSalary == Reason("rejected", <<"REJECTED: Salary mismatch">>, <<>>)
RejectedRequirements ==
    Reason("rejected", <<"REJECTED: Missing critical requirements">>, <<>>)
ErrorReason == Reason("error", <<"Error during matching">>, <<>>)

\* the evaluator without its hard filters
SalaryHardRejectNever(breakdown) == FALSE
RequirementsHardRejectNever(breakdown) == FALSE

\* if breakdown.salary_match == 0.0
SalaryHardReject(breakdown) == breakdown.salary_match = 0
\* if breakdown.requirements_match == 0.0
RequirementsHardReject(breakdown) == breakdown.requirements_match = 0

\* a final score with the two weights exchanged
FinalPercentageSwapped(semantic_score, rule_score) ==
    ((RULE_WEIGHT * semantic_score + SEMANTIC_WEIGHT * rule_score) * 100) \div 10

\* a final score that leaves the rule score out
FinalPercentageSemanticOnly(semantic_score, rule_score) ==
    (SEMANTIC_WEIGHT * semantic_score * 100) \div 10

\* (SEMANTIC_WEIGHT * semantic_score + RULE_WEIGHT * rule_score) * 100
FinalPercentage(semantic_score, rule_score) ==
    ((SEMANTIC_WEIGHT * semantic_score + RULE_WEIGHT * rule_score) * 100) \div 10

\* an except branch that annotates nothing
ErrorResultNoReason(job, candidate) ==
    MatchResult(candidate, job, 0, 0, 0, {}, <<>>)

\* the MatchResult of the except branch: score 0.0, the other fields at
\* their defaults
ErrorResult(job, candidate) ==
    MatchResult(candidate, job, 0, 0, 0, {}, <<ErrorReason>>)

\* the hard filters and the weighted score of _calculate_match
ScoredResult(job, candidate, semantic_score, rule_score, breakdown, reasons) ==
    IF SalaryHardReject(breakdown)
    THEN MatchResult(candidate, job, 0, semantic_score * 100, rule_score * 100,
                     {breakdown}, Append(reasons, RejectedSalary))
    ELSE IF RequirementsHardReject(breakdown)
    THEN MatchResult(candidate, job, 0, semantic_score * 100, rule_score * 100,
                     {breakdown}, Append(reasons, RejectedRequirements))
    ELSE MatchResult(candidate, job,
                     Round2(FinalPercentage(semantic_score, rule_score)),
                     Round2(semantic_score * 100), Round2(rule_score * 100),
                     {breakdown}, reasons)

\* _calculate_match after the semantic and the rule score: the exception
\* of a scorer goes to the except branch
MatchOf(job, candidate, semantic_score, rule) ==
    IF rule.exc THEN ErrorResult(job, candidate)
    ELSE ScoredResult(job, candidate, semantic_score, rule.rule_score,
                      [(CHOOSE b \in rule.breakdown : TRUE)
                          EXCEPT !.semantic_similarity = semantic_score],
                      rule.reasons)

\* _calculate_match
CalculateMatch(job, candidate) ==
    MatchOf(job, candidate, CalculateSemanticScore(job, candidate),
            CalculateRuleScore(job, candidate))

\* ------------------------------------------------------------------------
\* Ranker
\* ------------------------------------------------------------------------
\* the threshold values tried: 0, settings.MIN_MATCH_SCORE = 40.0, 100
MIN_MATCH_SCORE == 40
MinScores == {0, MIN_MATCH_SCORE * One, Hundred}

\* if match.score < min_score: continue
BelowMinScoreOrEqual(score, min_score) == score <= min_score
BelowMinScore(score, min_score) == score < min_score

\* a "breakdown" entry that carries None for a match without breakdown
BreakdownDictOfNone(breakdown) ==
    IF breakdown = {}
    THEN [location |-> None, salary |-> None, requirements |-> None,
          advantages |-> None, languages |-> None]
    ELSE [location |-> (CHOOSE b \in breakdown : TRUE).location_match,
          salary |-> (CHOOSE b \in breakdown : TRUE).salary_match,
          requirements |-> (CHOOSE b \in breakdown : TRUE).requirements_match,
          advantages |-> (CHOOSE b \in breakdown : TRUE).advantages_match,
          languages |-> (CHOOSE b \in breakdown : TRUE).language_match]

\* one field of the "breakdown" entry of a result dict: 0 when
\* match.breakdown is None
BreakdownDict(breakdown) ==
    IF breakdown = {}
    THEN [location |-> 0, salary |-> 0, requirements |-> 0, advantages |-> 0,
          languages |-> 0]
    ELSE [location |-> (CHOOSE b \in breakdown : TRUE).location_match,
          salary |-> (CHOOSE b \in breakdown : TRUE).salary_match,
          requirements |-> (CHOOSE b \in breakdown : TRUE).requirements_match,
          advantages |-> (CHOOSE b \in breakdown : TRUE).advantages_match,
          languages |-> (CHOOSE b \in breakdown : TRUE).language_match]

\* the dict appended to results; counterpart is match.candidate in
\* rank_candidates_for_job ("candidate") and match.job in
\* rank_jobs_for_candidate ("job")
ResultDict(counterpart, match) ==
    [counterpart |-> counterpart, score |-> match.score,
     semantic_score |-> match.semantic_score, rule_score |-> match.rule_score,
     match_reasons |-> match.match_reasons,
     breakdown |-> BreakdownDict(match.breakdown)]

\* the position of r in the sorted list: behind the k results whose score
\* is not smaller
InsertAt(sorted, r, k) ==
    SubSeq(sorted, 1, k) \o <<r>> \o SubSeq(sorted, k + 1, Len(sorted))

\* a sort that puts a result before the results of the same score
InsertByScoreBeforeEqual(sorted, r) ==
    InsertAt(sorted, r,
             Cardinality({i \in 1..Len(sorted) : sorted[i].score > r.score}))

\* list.sort(key = score, reverse = True) keeps equal scores in their order
InsertByScore(sorted, r) ==
    InsertAt(sorted, r,
             Cardinality({i \in 1..Len(sorted) : sorted[i].score >= r.score}))

RECURSIVE SortByScore(_)
SortByScore(rs) ==
    IF Len(rs) = 0 THEN <<>>
    ELSE InsertByScore(SortByScore(SubSeq(rs, 1, Len(rs) - 1)), rs[Len(rs)])

\* a loop that stops at the first match below min_score
KeptResultsBreak(ms, counterparts, threshold) ==
    [i \in {j \in 1..Len(ms) :
              \A k \in 1..j : ~BelowMinScore(ms[k].score, threshold)}
       |-> ResultDict(counterparts[i], ms[i])]

\* the results list before the sort: the dicts of the matches at or above
\* min_score, in the order of the collection
RECURSIVE KeptResults(_, _, _)
KeptResults(ms, counterparts, threshold) ==
    IF Len(ms) = 0 THEN <<>>
    ELSE KeptResults(SubSeq(ms, 1, Len(ms) - 1),
                     SubSeq(counterparts, 1, Len(ms) - 1), threshold)
         \o (IF BelowMinScore(ms[Len(ms)].score, threshold) THEN <<>>
             ELSE <<ResultDict(counterparts[Len(ms)], ms[Len(ms)])>>)

\* the records of a collection carry distinct ids
WithIds(xs) == [i \in 1..Len(xs) |-> [xs[i] EXCEPT !.id = i]]

\* ------------------------------------------------------------------------
\* Category strategy
\* ------------------------------------------------------------------------
\* get_scoring_weights, in hundredths
DefaultWeights ==
    [skills |-> 25, experience |-> 25, education |-> 15, languages |-> 15,
     availability |-> 15, certifications |-> 5]

GetScoringWeights(category) ==
    CASE category = "Technology" ->
           [skills |-> 40, experience |-> 25, education |-> 20,
            languages |-> 10, availability |-> 5]
      [] category = "Retail" ->
           [skills |-> 15, experience |-> 20, education |-> 5,
            languages |-> 20, availability |-> 40]
      [] category = "Hospitality" ->
           [skills |-> 15, experience |-> 20, education |-> 5,
            languages |-> 30, availability |-> 30]
      [] category = "Healthcare" ->
           [skills |-> 25, experience |-> 25, education |-> 20,
            languages |-> 15, availability |-> 15, certifications |-> 30]
      [] category = "Manufacturing" ->
           [skills |-> 25, experience |-> 30, education |-> 5,
            languages |-> 5, availability |-> 25, certifications |-> 10]
      [] category = "Customer Service" ->
           [skills |-> 20, experience |-> 20, education |-> 10,
            languages |-> 35, availability |-> 15]
      [] OTHER -> DefaultWeights

\* dict.get(key, default)
get(d, key, default) == IF key \in DOMAIN d THEN d[key] ELSE default

\* the reason of one dimension of score_availability: none when the job
\* does not require it
AvailabilityReason(required, willing, yes, no) ==
    IF ~required THEN <<>> ELSE IF willing THEN <<yes>> ELSE <<no>>

\* an availability score without the hard filter: 0.5 for each dimension
\* that is satisfied
AvailabilityResultNoFilter(shift_ok, weekend_ok, shift_reason, weekend_reason) ==
    Ret((IF shift_ok THEN One \div 2 ELSE 0) + (IF weekend_ok THEN One \div 2 ELSE 0),
        shift_reason \o weekend_reason, <<>>)

\* score_availability after the two dimensions: 0.0 at the first one not
\* satisfied, else 0.5 for each
AvailabilityResult(shift_ok, weekend_ok, shift_reason, weekend_reason) ==
    IF ~shift_ok THEN Ret(0, shift_reason, <<>>)
    ELSE IF ~weekend_ok THEN Ret(0, shift_reason \o weekend_reason, <<>>)
    ELSE Ret(One \div 2 + One \div 2,
             IF Len(shift_reason \o weekend_reason) > 0
             THEN shift_reason \o weekend_reason
             ELSE <<"No special availability required">>, <<>>)

\* score_availability: (score, " | ".join(reasons))
ScoreAvailability(job, candidate) ==
    AvailabilityResult(
        ~job.shift_work \/ candidate.willing_to_work_shifts,
        ~job.weekend_work \/ candidate.willing_to_work_weekends,
        AvailabilityReason(job.shift_work, candidate.willing_to_work_shifts,
                           "Willing to work shifts",
                           "Not willing to work shifts (required)"),
        AvailabilityReason(job.weekend_work, candidate.willing_to_work_weekends,
                           "Willing to work weekends",
                           "Not willing to work weekends (required)"))

\* set(c.lower() for c in certs)
LowerSet(certs) == {lower(c) : c \in SetOfSeq(certs)}

CertificationsResult(required_certs, candidate_certs) ==
    IF required_certs = {} THEN Ret(One, <<"No certifications required">>, <<>>)
    ELSE IF required_certs \ candidate_certs # {}
    THEN Ret(0, <<"Missing certifications">>, <<>>)
    ELSE Ret(One, <<"Has all required certifications">>, <<>>)

\* score_certifications
ScoreCertifications(job, candidate) ==
    CertificationsResult(LowerSet(job.certifications_required),
                         LowerSet(candidate.certifications))

\* score_employment_type
ScoreEmploymentType(job, candidate) ==
    IF candidate.preferred_employment_type = NoneStr
    THEN Ret(One \div 2, <<"No employment type preference">>, <<>>)
    ELSE IF job.employment_type = candidate.preferred_employment_type
    THEN Ret(One, <<"Prefers the job's employment type">>, <<>>)
    ELSE Ret((3 * One) \div 10, <<"Prefers another employment type">>, <<>>)

\* the weighted final score of _calculate_rule_score_with_category
CategoryWeightedScore(weights, loc, sal, req, lang, avail, cert, emp) ==
    (loc * 15 + sal * 15
     + req * get(weights, "skills", 25)
     + lang * get(weights, "languages", 15)
     + avail * get(weights, "availability", 15)
     + cert * get(weights, "certifications", 10)
     + emp * 10) \div 100

\* the reasons of the four scorers both modes share
SharedReasons(loc, sal, req, lang) ==
    <<Reason("location", loc.text, loc.args),
      Reason("salary", sal.text, sal.args),
      Reason("requirements", req.text, req.args),
      Reason("languages", lang.text, lang.args)>>

\* _calculate_rule_score_with_category after the scorers
CategoryScoreOf(weights, loc, sal, req, lang, avail, cert, emp) ==
    IF loc.exc \/ sal.exc \/ req.exc \/ lang.exc
    THEN [exc |-> TRUE, final_score |-> 0, breakdown |-> {}, reasons |-> <<>>]
    ELSE IF avail.score = 0
    THEN [exc |-> FALSE, final_score |-> 0, breakdown |-> {},
          reasons |-> Append(SharedReasons(loc, sal, req, lang),
                             Reason("rejected", avail.text, <<>>))]
    ELSE IF cert.score = 0
    THEN [exc |-> FALSE, final_score |-> 0, breakdown |-> {},
          reasons |-> SharedReasons(loc, sal, req, lang)
                      \o <<Reason("availability", avail.text, <<>>),
                           Reason("rejected", cert.text, <<>>)>>]
    ELSE [exc |-> FALSE,
          final_score |->
              CategoryWeightedScore(weights, loc.score, sal.score, req.score,
                                    lang.score, avail.score, cert.score,
                                    emp.score),
          breakdown |->
              {ScoringBreakdown(loc.score, sal.score, req.score, 0,
                                lang.score, 0)},
          reasons |-> SharedReasons(loc, sal, req, lang)
                      \o <<Reason("availability", avail.text, <<>>),
                           Reason("certifications", cert.text, <<>>),
                           Reason("employment_type", emp.text, <<>>)>>]

\* _calculate_rule_score_with_category: (final_score, breakdown, reasons),
\* breakdown None (the empty set) on a hard filter, or the exception of a
\* scorer
CalculateRuleScoreWithCategory(job, candidate) ==
    CategoryScoreOf(GetScoringWeights(job.category),
                    ScoreLocation(job, candidate), ScoreSalary(job, candidate),
                    ScoreRequirements(job, candidate),
                    ScoreLanguages(job, candidate),
                    ScoreAvailability(job, candidate),
                    ScoreCertifications(job, candidate),
                    ScoreEmploymentType(job, candidate))

\* ------------------------------------------------------------------------
\* Inputs of the calls
\* ------------------------------------------------------------------------
\* the counterparts and anchors of the ranking calls: candidates whose
\* text the provider encodes ("x") or fails on ("!"), that score
\* high (salary 1), are hard-rejected (salary above the maximum) or make
\* the salary scorer raise (None), and jobs with and without shift work
RankCandidates ==
    {Candidate(name, <<" ", "A">>, << <<"p">> >>, <<>>, << <<"e", "n">> >>,
               <<>>, FALSE, FALSE, NoneStr, sal) :
        name \in {<<"x">>, <<"!">>}, sal \in {None, 1, MaxSalary + 1}}

RankJobs ==
    {Job(<<"x">>, <<"a">>, sb[1], sb[2], reqs, <<>>, <<>>, "Retail",
         "Full Time", <<>>, shift, FALSE) :
        sb \in {<<None, None>>, <<1, MaxSalary>>},
        reqs \in {<< <<"P">> >>},
        shift \in BOOLEAN}

\* the pairs the category-weighted rule score is tried on
CategoryJobs ==
    {Job(<<"x">>, <<"a">>, sb[1], sb[2], <<>>, <<>>, langs, cat, "Full Time",
         certs, shift, weekend) :
        sb \in {<<None, None>>, <<1, MaxSalary>>},
        langs \in {<<>>, << <<"E", "n">> >>},
        cat \in Categories,
        certs \in {<<>>, << <<"C">> >>},
        shift \in BOOLEAN, weekend \in BOOLEAN}

CategoryCandidates ==
    {Candidate(<<"x">>, <<" ", "A">>, <<>>, <<>>, << <<"e", "n">> >>, certs,
               shifts, weekends, pref, sal) :
        certs \in {<<>>, << <<"c">> >>},
        shifts \in BOOLEAN, weekends \in BOOLEAN,
        pref \in {NoneStr, "Full Time", "Part Time"},
        sal \in {1, MaxSalary + 1}}

\* ------------------------------------------------------------------------
\* Embedding cache: TTLCache(maxsize = CACHE_SIZE, ttl = CACHE_TTL)
\* ------------------------------------------------------------------------
\* settings.CACHE_SIZE, 1000 in the code: the model runs with a small cache
CACHE_SIZE == 2
\* settings.CACHE_TTL, 3600 seconds in the code: here in ticks of the clock
CACHE_TTL == 2
\* the clock of the cache (time.monotonic) runs from 0 to MaxTime
MaxTime == CACHE_TTL + 2

\* the texts looked up: one more than the cache holds
TextPool == <<"x", "y", "z", "w", "v">>
Texts == {<<TextPool[i]>> : i \in 1..(CACHE_SIZE + 1)}

\* _get_text_hash: the md5 hex digest of the text; distinct texts of the
\* model have distinct digests
GetTextHash(text) == <<"md5">> \o text

\* model.encode(text) at time t: a new tensor each time it is called
EncodeAt(text, t) == [vec |-> Encode(text).vec, at |-> t]

\* The cache is the list of its links in the order of TTLCache.__links
\* (least recently used first); a link has the key, the value and the time
\* it expires.
\* used records that the link was read since it was stored.
Link(key, value, expires, used) ==
    [key |-> key, value |-> value, expires |-> expires, used |-> used]

\* TTLCache.expire(time): the links that are left
Expire(c, t) == SelectSeq(c, LAMBDA l : t < l.expires)

\* the keys of the links, expired or not
Keys(c) == {c[i].key : i \in DOMAIN c}

\* the link of a key that has one
LinkOf(c, key) == c[CHOOSE i \in DOMAIN c : c[i].key = key]

\* the links but the one of key
Without(c, key) == SelectSeq(c, LAMBDA l : l.key # key)

\* a test that does not look at the time
CacheContainsLink(c, t, key) == key \in Keys(c)

\* TTLCache.__contains__(key) at time t: nothing changes
CacheContains(c, t, key) == key \in Keys(c) /\ t < LinkOf(c, key).expires

\* a read that leaves the link where it is
GetLinkInPlace(c, key) ==
    [i \in DOMAIN c |-> IF c[i].key = key THEN [c[i] EXCEPT !.used = TRUE]
                        ELSE c[i]]

\* TTLCache.__getlink(key): the link moves to the end of __links
GetLink(c, key) == Without(c, key) \o <<[LinkOf(c, key) EXCEPT !.used = TRUE]>>

\* TTLCache.__getitem__(key) at time t: KeyError for a key without a link
\* and for an expired link (which __getlink has moved all the same)
CacheGetItem(c, t, key) ==
    IF key \notin Keys(c)
    THEN [cache |-> c, raised |-> TRUE, value |-> <<>>]
    ELSE IF ~(t < LinkOf(c, key).expires)
    THEN [cache |-> GetLink(c, key), raised |-> TRUE, value |-> <<>>]
    ELSE [cache |-> GetLink(c, key), raised |-> FALSE,
          value |-> <<LinkOf(c, key).value>>]

\* a cache that makes no room
PopNothing(c) == c

\* Cache.__setitem__ for a new key: popitem() while the cache is full, and
\* TTLCache.popitem() pops the first link of __links
RECURSIVE PopWhileFull(_)
PopWhileFull(c) ==
    IF Len(c) + 1 > CACHE_SIZE /\ Len(c) > 0 THEN PopWhileFull(Tail(c)) ELSE c

\* a store that puts the new link where the next popitem() takes it
CacheSetItemFirst(c, t, key, value) ==
    <<Link(key, value, t + CACHE_TTL, FALSE)>>
    \o (IF key \in Keys(Expire(c, t)) THEN Without(Expire(c, t), key)
        ELSE PopWhileFull(Expire(c, t)))

\* TTLCache.__setitem__(key, value) at time t: expire(t), make room for a
\* new key, then put the link of the key at the end with expires = t + ttl
CacheSetItem(c, t, key, value) ==
    (IF key \in Keys(Expire(c, t)) THEN Without(Expire(c, t), key)
     ELSE PopWhileFull(Expire(c, t)))
    \o <<Link(key, value, t + CACHE_TTL, FALSE)>>

\* a clear that drops the expired links only
CacheClearExpired(c, t) == Expire(c, t)

\* TTLCache.clear() at time t
CacheClear(c, t) == <<>>

\* TTLCache.__len__ at time t: the links that have not expired
CacheLen(c, t) == Len(Expire(c, t))

\* get_cache_stats at time t
CacheStats(c, t) ==
    [cache_size |-> CacheLen(c, t), cache_maxsize |-> CACHE_SIZE,
     cache_ttl |-> CACHE_TTL]

\* What a call of _get_embedding(text) does.  It tests the key at time t
\* (line 159) and reads it at time t + d (line 161), or encodes the text
\* and stores the tensor at time t + d (lines 164-165).  A KeyError of the
\* read is not caught in _get_embedding.
Outcome(c, raised, value, invoked, popped, stale) ==
    [cache |-> c, raised |-> raised, value |-> value, invoked |-> invoked,
     popped |-> popped, stale |-> stale]

HitOutcome(got) == Outcome(got.cache, got.raised, got.value, 0, {}, {})

\* popped: the links that popitem() took out to make room; stale: the
\* expired link of the key that the new one replaces
MissOutcome(c, t, key, tensor) ==
    Outcome(CacheSetItem(c, t, key, tensor), FALSE, <<tensor>>, 1,
            {l \in {Expire(c, t)[i] : i \in DOMAIN Expire(c, t)} :
                l.key \notin Keys(CacheSetItem(c, t, key, tensor))},
            {c[i] : i \in {j \in DOMAIN c : c[j].key = key}})

\* a lookup that does not look into the cache
GetEmbeddingAtUncached(c, t, d, text) ==
    MissOutcome(c, t + d, GetTextHash(text), EncodeAt(text, t + d))

GetEmbeddingAt(c, t, d, text) ==
    IF CacheContains(c, t, GetTextHash(text))
    THEN HitOutcome(CacheGetItem(c, t + d, GetTextHash(text)))
    ELSE IF Encode(text).exc THEN Outcome(c, TRUE, <<>>, 1, {}, {})
    ELSE MissOutcome(c, t + d, GetTextHash(text), EncodeAt(text, t + d))

\* ------------------------------------------------------------------------
\* State
\* ------------------------------------------------------------------------
VARIABLES
    op,          \* the method of MatchingService that returned, or "idle"
    jobs,        \* its jobs: the job, or the collection ranked
    candidates,  \* its candidates: the candidate, or the collection ranked
    min_score,   \* its threshold (a ranking call)
    matches,     \* the MatchResult of each pair evaluated, in order
    results,     \* the list a ranking call returned
    rule_out     \* what _calculate_rule_score_with_category returned

VARIABLES
    cache,       \* _embedding_cache: its links, least recently used first
    now,         \* the clock of the cache
    last,        \* the last call on the cache and what it returned
    recent,      \* the keys of the cache in the order of their last use
    threads      \* the position of each thread inside _get_embedding

VARIABLES
    app,         \* the application: "down", "up", or "failed" at startup
    model_cache, \* the lru_cache of get_embedding_model: the model it holds
    loads,       \* the times SentenceTransformer(model_name) was called
    calls,       \* the calls of get_embedding_model and what they returned
    requests     \* the API requests in flight, each with its service

\* the variables of the calls, those of the cache and those of the process
svars == <<op, jobs, candidates, min_score, matches, results, rule_out>>
cvars == <<cache, now, last, recent, threads>>
pvars == <<app, model_cache, loads, calls, requests>>
vars == <<op, jobs, candidates, min_score, matches, results, rule_out,
          cache, now, last, recent, threads,
          app, model_cache, loads, calls, requests>>

\* the threads that share one MatchingService
Threads == {1, 2}

NoCall ==
    [name |-> "none", text |-> <<>>, raised |-> FALSE,
     value |-> <<>>, invoked |-> 0, popped |-> {}, stale |-> {},
     stats |-> <<>>]

Idle == [pc |-> "idle", text |-> <<>>, raised |-> FALSE, value |-> <<>>]

\* MatchingService.__init__: an empty cache
CacheInit ==
    /\ cache = <<>>
    /\ now = 0
    /\ last = NoCall
    /\ recent = <<>>
    /\ threads = [t \in Threads |-> Idle]

\* the API requests that may be in flight together
Requests == {1, 2}

\* a request that has not arrived
NoRequest ==
    [pc |-> "none", endpoint |-> "none", cache |-> <<>>, lookups |-> <<>>,
     response |-> <<>>]

\* the process before the application starts: the model is not loaded
ProcessInit ==
    /\ app = "down"
    /\ model_cache = <<>>
    /\ loads = 0
    /\ calls = <<>>
    /\ requests = [r \in Requests |-> NoRequest]

\* The service keeps nothing of a call but its embedding cache.  Spec is
\* the service whose cached entries do not expire while a call runs, where
\* the cache does not change what a call returns (GetEmbedding); CacheSpec
\* and ThreadSpec are the cache itself.  A call starts from the idle
\* service, and its inputs and results stay in the state until the caller
\* has taken them (Return).
Init ==
    /\ op = "idle"
    /\ jobs = <<>>
    /\ candidates = <<>>
    /\ min_score = 0
    /\ matches = <<>>
    /\ results = <<>>
    /\ rule_out = {}
    /\ CacheInit
    /\ ProcessInit

\* _calculate_match(job, candidate)
Evaluate ==
    /\ op = "idle"
    /\ \E job \in Jobs \cup UnencodableJobs, candidate \in Candidates :
        /\ op' = "_calculate_match"
        /\ jobs' = <<job>>
        /\ candidates' = <<candidate>>
        /\ min_score' = 0
        /\ matches' = <<CalculateMatch(job, candidate)>>
        /\ results' = <<>>
        /\ rule_out' = {}
        /\ UNCHANGED <<cvars, pvars>>

\* the loop of a ranking call: the MatchResult of each pair, in the order
\* of the collection
MatchesForJob(job, cands) ==
    [i \in 1..Len(cands) |-> CalculateMatch(job, cands[i])]
MatchesForCandidate(candidate, jbs) ==
    [i \in 1..Len(jbs) |-> CalculateMatch(jbs[i], candidate)]

\* what a ranking call returns for the matches of its loop
Ranked(ms, counterparts, threshold) ==
    SortByScore(KeptResults(ms, counterparts, threshold))

\* the state a ranking call leaves
RankReturns(name, js, cs, threshold, ms, counterparts) ==
    /\ op' = name
    /\ jobs' = js
    /\ candidates' = cs
    /\ min_score' = threshold
    /\ matches' = ms
    /\ results' = Ranked(ms, counterparts, threshold)
    /\ rule_out' = {}
    /\ UNCHANGED <<cvars, pvars>>

\* rank_candidates_for_job(job, candidates, min_score)
RankCandidatesForJob ==
    /\ op = "idle"
    /\ \E job \in RankJobs, cs \in SeqsUpTo(RankCandidates, MaxBatch),
          threshold \in MinScores :
        RankReturns("rank_candidates_for_job", <<job>>, WithIds(cs), threshold,
                    MatchesForJob(job, WithIds(cs)), WithIds(cs))

\* rank_jobs_for_candidate(candidate, jobs, min_score)
RankJobsForCandidate ==
    /\ op = "idle"
    /\ \E candidate \in RankCandidates, js \in SeqsUpTo(RankJobs, MaxBatch),
          threshold \in MinScores :
        RankReturns("rank_jobs_for_candidate", WithIds(js), <<candidate>>,
                    threshold, MatchesForCandidate(candidate, WithIds(js)),
                    WithIds(js))

\* _calculate_rule_score_with_category(job, candidate)
RuleScoreWithCategory ==
    /\ op = "idle"
    /\ \E job \in CategoryJobs, candidate \in CategoryCandidates :
        /\ op' = "_calculate_rule_score_with_category"
        /\ jobs' = <<job>>
        /\ candidates' = <<candidate>>
        /\ min_score' = 0
        /\ matches' = <<>>
        /\ results' = <<>>
        /\ rule_out' = {CalculateRuleScoreWithCategory(job, candidate)}
        /\ UNCHANGED <<cvars, pvars>>

\* the caller takes the result: the service is idle again
Return ==
    /\ op # "idle"
    /\ op' = "idle"
    /\ jobs' = <<>>
    /\ candidates' = <<>>
    /\ min_score' = 0
    /\ matches' = <<>>
    /\ results' = <<>>
    /\ rule_out' = {}
    /\ UNCHANGED <<cvars, pvars>>

Next ==
    \/ Evaluate
    \/ RankCandidatesForJob
    \/ RankJobsForCandidate
    \/ RuleScoreWithCategory
    \/ Return

Spec == Init /\ [][Next]_vars

\* ------------------------------------------------------------------------
\* The embedding cache of one service, one call at a time
\* ------------------------------------------------------------------------
\* the time that passes between the test of line 159 and the read of line
\* 161 (or the store of line 165)
Delays == {0, 1}

\* a use of a key, for the order of recent; the keys that left the cache
\* are dropped
Touch(keys, key) == SelectSeq(keys, LAMBDA k : k # key) \o <<key>>
Present(keys, c) == SelectSeq(keys, LAMBDA k : k \in Keys(c))

LookupReturns(text, d, out) ==
    /\ cache' = out.cache
    /\ now' = now + d
    /\ last' = [name |-> "_get_embedding", text |-> text,
                raised |-> out.raised, value |-> out.value,
                invoked |-> out.invoked, popped |-> out.popped,
                stale |-> out.stale, stats |-> <<>>]
    /\ recent' = IF out.raised THEN Present(recent, out.cache)
                 ELSE Present(Touch(recent, GetTextHash(text)), out.cache)
    /\ UNCHANGED <<pvars, threads, op, jobs, candidates, min_score, matches, results,
                   rule_out>>

\* _get_embedding(text)
GetEmbeddingCall ==
    \E text \in Texts, d \in Delays :
        /\ now + d <= MaxTime
        /\ LookupReturns(text, d, GetEmbeddingAt(cache, now, d, text))

\* clear_cache()
ClearCache ==
    /\ cache' = CacheClear(cache, now)
    /\ last' = [NoCall EXCEPT !.name = "clear_cache",
                              !.popped = {cache[i] : i \in DOMAIN cache}]
    /\ recent' = <<>>
    /\ UNCHANGED <<pvars, now, threads, op, jobs, candidates, min_score, matches,
                   results, rule_out>>

\* get_cache_stats()
GetCacheStats ==
    /\ last' = [NoCall EXCEPT !.name = "get_cache_stats",
                              !.stats = <<CacheStats(cache, now)>>]
    /\ UNCHANGED <<pvars, cache, now, recent, threads, op, jobs, candidates,
                   min_score, matches, results, rule_out>>

\* time passes between two calls
Tick ==
    /\ now < MaxTime
    /\ now' = now + 1
    /\ UNCHANGED <<pvars, cache, last, recent, threads, op, jobs, candidates,
                   min_score, matches, results, rule_out>>

CacheNext ==
    \/ GetEmbeddingCall
    \/ ClearCache
    \/ GetCacheStats
    \/ Tick

CacheSpec == Init /\ [][CacheNext]_vars

\* ------------------------------------------------------------------------
\* Properties
\* ------------------------------------------------------------------------
Ranking == op \in {"rank_candidates_for_job", "rank_jobs_for_candidate"}

\* the pair a MatchResult is of makes a scorer raise
Raises(m) == ScoreSalary(m.job, m.candidate).exc

\* the pairs of the call whose evaluation raised
Failing == {i \in DOMAIN matches : Raises(matches[i])}

\* the ids of the counterparts of the returned list
ReturnedIds == {results[k].counterpart.id : k \in DOMAIN results}

InRange(p) == 0 <= p /\ p <= Hundred

\* C1: every MatchResult of the evaluator, the hard-rejected and the
\* errored ones included, has score, semantic_score and rule_score within
\* 0..100.
C1_ScoresInRange ==
    \A i \in DOMAIN matches :
        /\ InRange(matches[i].score)
        /\ InRange(matches[i].semantic_score)
        /\ InRange(matches[i].rule_score)

\* a call that evaluates a pair of score 100, a hard-rejected pair of
\* semantic score 100 and a pair whose evaluation raised
C1_Witness ==
    /\ op = "rank_candidates_for_job"
    /\ \E i \in DOMAIN matches : matches[i].score = Hundred
    /\ \E i \in DOMAIN matches :
         /\ matches[i].score = 0
         /\ matches[i].semantic_score = Hundred
         /\ matches[i].breakdown # {}
    /\ \E i \in DOMAIN matches : Raises(matches[i])

\* C2: when the salary or the requirements sub-score of a pair is 0.0, the
\* final score is 0.0, the last reason is the rejection, and the semantic
\* score of the pair is reported in the result and in its breakdown.
C2_HardReject ==
    \A i \in DOMAIN matches :
        LET m == matches[i]
        IN  (/\ ~Raises(m)
             /\ \/ ScoreSalary(m.job, m.candidate).score = 0
                \/ ScoreRequirements(m.job, m.candidate).score = 0)
            => /\ m.score = 0
               /\ m.match_reasons[Len(m.match_reasons)]
                    \in {RejectedSalary, RejectedRequirements}
               /\ m.semantic_score = CalculateSemanticScore(m.job, m.candidate) * 100
               /\ \E b \in m.breakdown :
                    b.semantic_similarity = CalculateSemanticScore(m.job, m.candidate)

\* a pair rejected for its salary alone and of semantic score 100, with
\* the rejection behind the reasons of the scorers
C2_Witness ==
    /\ op = "_calculate_match"
    /\ matches[1].score = 0
    /\ matches[1].semantic_score = Hundred
    /\ matches[1].rule_score > 0
    /\ Len(matches[1].match_reasons) > 3
    /\ \E b \in matches[1].breakdown :
         b.salary_match = 0 /\ b.requirements_match = One

\* C3: a candidate who expects more than the salary_max of the job scores
\* 0 with it, whatever the other factors, and the reasons name the salary:
\* the reason of the salary scorer and the salary rejection.
C3_AboveMaxSalary ==
    \A i \in DOMAIN matches :
        LET m == matches[i]
        IN  (/\ m.job.salary_max # None
             /\ m.candidate.salary_expectation # None
             /\ m.candidate.salary_expectation > m.job.salary_max)
            => /\ m.score = 0
               /\ \E k \in DOMAIN m.match_reasons :
                    m.match_reasons[k] = RejectedSalary
               /\ \E k \in DOMAIN m.match_reasons :
                    /\ m.match_reasons[k].icon = "salary"
                    /\ m.match_reasons[k].text
                         \in {<<"Above maximum salary">>, <<"Below minimum salary">>}

\* such a pair with everything else at its best: exact location, all
\* requirements met, bonuses, semantic score 100
C3_Witness ==
    /\ op = "_calculate_match"
    /\ matches[1].candidate.salary_expectation > matches[1].job.salary_max
    /\ matches[1].job.salary_max # None
    /\ matches[1].job.salary_min # None
    /\ matches[1].semantic_score = Hundred
    /\ \E b \in matches[1].breakdown :
         /\ b.location_match = One
         /\ b.requirements_match = One
         /\ Len(matches[1].job.requirements) = 2
         /\ b.advantages_match > 0
         /\ b.language_match > 0

\* no requirement of the job occurs in the candidate's experience and
\* skills text
NoRequirementFound(job, candidate) ==
    \A k \in DOMAIN job.requirements :
        ~contains(CombinedText(candidate), lower(job.requirements[k]))

\* C4: a job with requirements none of which occurs in the candidate's
\* experience and skills text scores 0 with that candidate.
C4_NoRequirementMet ==
    \A i \in DOMAIN matches :
        (/\ Len(matches[i].job.requirements) > 0
         /\ NoRequirementFound(matches[i].job, matches[i].candidate))
        => matches[i].score = 0

\* such a pair with a salary in range, an exact location and semantic score
\* 100; the candidate has a text, in which the requirement is not
C4_Witness ==
    /\ op = "_calculate_match"
    /\ Len(matches[1].job.requirements) > 0
    /\ NoRequirementFound(matches[1].job, matches[1].candidate)
    /\ Len(matches[1].candidate.skills) > 0
    /\ matches[1].semantic_score = Hundred
    /\ \E b \in matches[1].breakdown :
         b.salary_match = One /\ b.location_match = One

\* a reason that rejects for the availability
AvailabilityRejection(r) ==
    /\ r.icon = "rejected"
    /\ \E k \in DOMAIN r.text : r.text[k] = "Not willing to work shifts (required)"

\* C5 (as claimed): a pair of a job with shift work and a candidate not
\* willing to work shifts has final score 0 and an availability rejection
\* among its reasons in what a ranking or evaluation call returns.  The
\* calls have no parameter that selects the category mode, and what they
\* run never looks at shift_work.
C5_Claim ==
    \A i \in DOMAIN matches :
        (/\ matches[i].job.shift_work
         /\ ~matches[i].candidate.willing_to_work_shifts)
        => /\ matches[i].score = 0
           /\ \E k \in DOMAIN matches[i].match_reasons :
                AvailabilityRejection(matches[i].match_reasons[k])

\* C6: a pair whose salary and requirements sub-scores are both non-zero
\* and whose evaluation raised nothing has a final score above 0: a final
\* score of 0 comes from a hard reject or an error only.
C6_PositiveScore ==
    \A i \in DOMAIN matches :
        LET m == matches[i]
        IN  (/\ ~Raises(m)
             /\ ScoreSalary(m.job, m.candidate).score # 0
             /\ ScoreRequirements(m.job, m.candidate).score # 0)
            => m.score > 0

\* the weakest such pair: semantic score 0, a different location, no
\* salary bounds, half of the requirements, no bonus
C6_Witness ==
    /\ op = "_calculate_match"
    /\ matches[1].score > 0
    /\ matches[1].semantic_score = 0
    /\ \E b \in matches[1].breakdown :
         /\ b.location_match = (3 * One) \div 10
         /\ b.salary_match = One \div 2
         /\ b.requirements_match = One \div 2
         /\ b.advantages_match = 0
         /\ b.language_match = 0

\* C7: a ranking call returns exactly the counterparts whose final score
\* is not below min_score, each once and with the score of its evaluation:
\* score < min_score is discarded, score >= min_score is kept.
C7_ThresholdFilter ==
    Ranking =>
        /\ ReturnedIds = {i \in DOMAIN matches : matches[i].score >= min_score}
        /\ Len(results) = Cardinality(ReturnedIds)
        /\ \A k \in DOMAIN results :
             results[k].score = matches[results[k].counterpart.id].score

\* a call with a positive threshold that keeps a counterpart whose score is
\* the threshold and discards another
C7_Witness ==
    /\ Ranking
    /\ min_score > 0
    /\ \E k \in DOMAIN results : results[k].score = min_score
    /\ \E i \in DOMAIN matches : matches[i].score < min_score

\* C8: the returned list is in descending order of final score, and
\* results of equal score are in the order of their counterparts in the
\* input collection.
C8_SortedStable ==
    Ranking =>
        \A k, l \in DOMAIN results :
            k < l =>
                /\ results[k].score >= results[l].score
                /\ results[k].score = results[l].score
                     => results[k].counterpart.id < results[l].counterpart.id

\* a list the sort reordered, with two results of equal score
C8_Witness ==
    /\ Ranking
    /\ \E k, l \in DOMAIN results :
         k < l /\ results[k].counterpart.id > results[l].counterpart.id
    /\ \E k, l \in DOMAIN results :
         k < l /\ results[k].score = results[l].score

\* the counterparts of the call but those whose pair raised
NotFailing(xs) == SelectSeq(xs, LAMBDA x : x.id \notin Failing)

\* what the same call returns for the collection without the failing pairs
RankedWithoutFailing ==
    IF op = "rank_candidates_for_job"
    THEN Ranked(MatchesForJob(jobs[1], NotFailing(candidates)),
                NotFailing(candidates), min_score)
    ELSE Ranked(MatchesForCandidate(candidates[1], NotFailing(jobs)),
                NotFailing(jobs), min_score)

\* C9: a pair whose scorer raises gets a result of score 0 with the error
\* reason; the ranking call evaluates every counterpart all the same, and
\* the other counterparts are returned as the call without the failing
\* pairs returns them.
C9_ErrorIsolated ==
    /\ \A i \in DOMAIN matches :
         Raises(matches[i]) =>
            /\ matches[i].score = 0
            /\ \E k \in DOMAIN matches[i].match_reasons :
                 matches[i].match_reasons[k] = ErrorReason
    /\ Ranking =>
         /\ Len(matches) = Len(jobs) * Len(candidates)
         /\ SelectSeq(results, LAMBDA r : r.counterpart.id \notin Failing)
              = RankedWithoutFailing

\* a call where a pair raises between two pairs that are returned
C9_Witness ==
    /\ Ranking
    /\ Len(matches) = 3
    /\ Failing = {2}
    /\ {1, 3} \subseteq ReturnedIds
    /\ matches[3].score > matches[1].score

\* C10 (as claimed): a counterpart whose pair raised is not in the returned
\* list, whatever min_score is, 0 included.
C10_Claim ==
    Ranking => ReturnedIds \cap Failing = {}

\* C10 (amended): a counterpart whose pair raised is not in the returned
\* list when min_score is above 0; when min_score is 0 it is in the list,
\* with score 0, the error reason and a breakdown of zeros.
C10_ErrorSkippedAboveZero ==
    Ranking =>
        /\ min_score > 0 => ReturnedIds \cap Failing = {}
        /\ min_score = 0 =>
             \A i \in Failing :
                \E k \in DOMAIN results :
                    /\ results[k].counterpart.id = i
                    /\ results[k].score = 0
                    /\ results[k].match_reasons = <<ErrorReason>>
                    /\ results[k].breakdown = BreakdownDict({})

\* a call with min_score 0 that returns a counterpart whose pair raised
\* behind one whose pair did not
C10_Witness ==
    /\ Ranking
    /\ min_score = 0
    /\ Failing # {}
    /\ Failing \subseteq ReturnedIds
    /\ \E k \in DOMAIN results :
         results[k].score > 0 /\ results[k].counterpart.id \notin Failing

\* the provider fails on a text of the pair
ProviderFails(m) ==
    \/ Encode(BuildJobText(m.job)).exc
    \/ Encode(BuildCandidateText(m.candidate)).exc

\* rule_weight x rule_score as a percentage
RuleScoreAlone(m) ==
    Round2((RULE_WEIGHT * CalculateRuleScore(m.job, m.candidate).rule_score * 100)
           \div 10)

HardRejected(m) ==
    \/ ScoreSalary(m.job, m.candidate).score = 0
    \/ ScoreRequirements(m.job, m.candidate).score = 0

\* C18: when the embedding provider fails on a text of a pair (and no
\* scorer of the pair raises), the semantic score of the pair is 0.0 and
\* its final score is rule_weight x rule_score as a percentage, or 0 when
\* the pair is hard-rejected; the result is a scored one, not the error
\* result, and a ranking call with such a pair evaluates every counterpart
\* and returns all those whose score is not below min_score.
C18_ProviderFailureDegrades ==
    /\ \A i \in DOMAIN matches :
         (ProviderFails(matches[i]) /\ ~Raises(matches[i])) =>
            /\ matches[i].semantic_score = 0
            /\ matches[i].breakdown # {}
            /\ \A b \in matches[i].breakdown : b.semantic_similarity = 0
            /\ \A k \in DOMAIN matches[i].match_reasons :
                 matches[i].match_reasons[k] # ErrorReason
            /\ matches[i].score = IF HardRejected(matches[i]) THEN 0
                                  ELSE RuleScoreAlone(matches[i])
    /\ (Ranking /\ \E i \in DOMAIN matches : ProviderFails(matches[i])) =>
         /\ Len(matches) = Len(jobs) * Len(candidates)
         /\ {i \in DOMAIN matches : matches[i].score >= min_score}
              \subseteq ReturnedIds

\* a ranking call whose first pair the provider fails on: it is returned
\* with its rule score alone, behind a later pair
C18_Witness ==
    /\ op = "rank_candidates_for_job"
    /\ Len(matches) > 1
    /\ ProviderFails(matches[1])
    /\ ~ProviderFails(matches[2])
    /\ matches[1].score > 0
    /\ matches[1].score = RuleScoreAlone(matches[1])
    /\ {1, 2} \subseteq ReturnedIds
    /\ results[1].counterpart.id = 2

\* the salary score the claim gives for the bounds of a job and an
\* expectation
SalaryScoreClaimed(salary_min, salary_max, expectation) ==
    IF salary_min = None /\ salary_max = None THEN One \div 2
    ELSE IF salary_min # None /\ expectation < salary_min THEN 0
    ELSE IF salary_max # None /\ expectation > salary_max THEN 0
    ELSE One

\* C21: the salary score of a pair is 0.5 when the job has neither bound;
\* otherwise it is 0.0 when the expectation is below salary_min or above
\* salary_max and 1.0 in every other case, so with a bound it is 0.0 or
\* 1.0 and an expectation equal to a bound is accepted.
C21_SalaryScore ==
    \A i \in DOMAIN matches :
        \A b \in matches[i].breakdown :
            /\ b.salary_match
                 = SalaryScoreClaimed(matches[i].job.salary_min,
                                      matches[i].job.salary_max,
                                      matches[i].candidate.salary_expectation)
            /\ (matches[i].job.salary_min # None \/ matches[i].job.salary_max # None)
                 => b.salary_match \in {0, One}

\* an expectation equal to both bounds of the job, accepted
C21_Witness ==
    /\ op = "_calculate_match"
    /\ matches[1].job.salary_min = matches[1].candidate.salary_expectation
    /\ matches[1].job.salary_max = matches[1].candidate.salary_expectation
    /\ \E b \in matches[1].breakdown : b.salary_match = One

\* (location + salary + requirements) / 3 + (advantages + languages) x 0.1
\* of a breakdown, within 0..1
RuleScoreClaimed(b) ==
    Min(One, Max(0, (10 * (b.location_match + b.salary_match + b.requirements_match)
                     + 3 * (b.advantages_match + b.language_match)) \div 30))

\* C22: the rule score of a pair is min(1, max(0, (location + salary +
\* requirements) / 3 + (advantages + languages) x 0.1)), reported as a
\* percentage; it is never above 1.0, and it is exactly 1.0 when the three
\* core sub-scores are 1.0, whatever the bonuses.
C22_RuleAggregation ==
    \A i \in DOMAIN matches :
        \A b \in matches[i].breakdown :
            /\ matches[i].rule_score
                 = IF HardRejected(matches[i]) THEN RuleScoreClaimed(b) * 100
                   ELSE Round2(RuleScoreClaimed(b) * 100)
            /\ matches[i].rule_score <= Hundred
            /\ (/\ b.location_match = One
                /\ b.salary_match = One
                /\ b.requirements_match = One)
                 => matches[i].rule_score = Hundred

\* a pair with the three core sub-scores at 1.0 and both bonuses
C22_Witness ==
    /\ op = "_calculate_match"
    /\ \E b \in matches[1].breakdown :
         /\ b.location_match = One
         /\ b.salary_match = One
         /\ b.requirements_match = One
         /\ b.advantages_match > 0
         /\ b.language_match > 0
    /\ matches[1].rule_score = Hundred

\* C23: the final score of a pair that is neither hard-rejected nor
\* errored is 0.6 x semantic_score + 0.4 x rule_score as a percentage
\* rounded to 2 decimals; the weights sum to 1.0 and the final score lies
\* between the smaller and the larger of the semantic and rule percentages
\* of the result.
C23_WeightedBlend ==
    /\ SEMANTIC_WEIGHT + RULE_WEIGHT = 10
    /\ \A i \in DOMAIN matches :
         (~Raises(matches[i]) /\ ~HardRejected(matches[i])) =>
            /\ matches[i].score
                 = Round2((6 * CalculateSemanticScore(matches[i].job, matches[i].candidate)
                           + 4 * CalculateRuleScore(matches[i].job, matches[i].candidate).rule_score)
                          * 10)
            /\ matches[i].score >= Min(matches[i].semantic_score, matches[i].rule_score)
            /\ matches[i].score <= Max(matches[i].semantic_score, matches[i].rule_score)

\* a pair whose final score is strictly between its semantic and its rule
\* percentage, the rule one being the larger
C23_Witness ==
    /\ op = "_calculate_match"
    /\ ~HardRejected(matches[1])
    /\ matches[1].semantic_score > 0
    /\ matches[1].semantic_score < matches[1].score
    /\ matches[1].score < matches[1].rule_score

\* C25 (as claimed): the rule score the category-weighted aggregator
\* returns is within 0..1, for every job category and every combination
\* of sub-scores.
C25_Claim ==
    (op = "_calculate_rule_score_with_category")
    => \A r \in rule_out : 0 <= r.final_score /\ r.final_score <= One

\* every field of the "breakdown" entry of a result is 0
ZeroBreakdown(d) ==
    /\ d.location = 0
    /\ d.salary = 0
    /\ d.requirements = 0
    /\ d.advantages = 0
    /\ d.languages = 0

\* C27: a ranking call with min_score = 0 returns one result for each
\* counterpart of its collection, the hard-rejected and the errored ones
\* included, which have score 0; every breakdown field of the result of an
\* errored pair is 0.
C27_AllReturnedAtZero ==
    (Ranking /\ min_score = 0) =>
        /\ Len(results) = Len(jobs) * Len(candidates)
        /\ ReturnedIds = 1..(Len(jobs) * Len(candidates))
        /\ \A k \in DOMAIN results :
             LET m == matches[results[k].counterpart.id]
             IN  /\ (Raises(m) \/ HardRejected(m)) => results[k].score = 0
                 /\ Raises(m) => ZeroBreakdown(results[k].breakdown)

\* a call with min_score = 0 over an errored pair, a hard-rejected pair and
\* a pair of positive score
C27_Witness ==
    /\ Ranking
    /\ min_score = 0
    /\ Len(results) = 3
    /\ \E i \in DOMAIN matches : Raises(matches[i])
    /\ \E i \in DOMAIN matches : ~Raises(matches[i]) /\ HardRejected(matches[i])
    /\ \E i \in DOMAIN matches : matches[i].score > 0

\* ------------------------------------------------------------------------
\* The embedding cache of one service shared by threads
\* ------------------------------------------------------------------------
\* A thread runs _get_embedding statement by statement; the calls of the
\* cache (__contains__, __getitem__, __setitem__, clear) are taken as
\* atomic.  The code holds no lock between them.
At(t, pc) == threads[t].pc = pc

Goto(t, pc, text, raised, value) ==
    threads' = [threads EXCEPT ![t] = [pc |-> pc, text |-> text,
                                        raised |-> raised, value |-> value]]

\* a thread calls _get_embedding(text)
ThreadCall(t) ==
    /\ At(t, "idle")
    /\ \E text \in Texts : Goto(t, "159", text, FALSE, <<>>)
    /\ UNCHANGED <<pvars, cache, now, last, recent, op, jobs, candidates, min_score,
                   matches, results, rule_out>>

\* line 159: if cache_key in self._embedding_cache
ThreadTest(t) ==
    /\ At(t, "159")
    /\ Goto(t, IF CacheContains(cache, now, GetTextHash(threads[t].text))
               THEN "161" ELSE "164",
            threads[t].text, FALSE, <<>>)
    /\ UNCHANGED <<pvars, cache, now, last, recent, op, jobs, candidates, min_score,
                   matches, results, rule_out>>

ThreadReadReturns(t, got) ==
    /\ cache' = got.cache
    /\ Goto(t, "return", threads[t].text, got.raised, got.value)

\* line 161: return self._embedding_cache[cache_key]
ThreadRead(t) ==
    /\ At(t, "161")
    /\ ThreadReadReturns(t, CacheGetItem(cache, now, GetTextHash(threads[t].text)))
    /\ UNCHANGED <<pvars, now, last, recent, op, jobs, candidates, min_score,
                   matches, results, rule_out>>

\* line 164: embedding = self.model.encode(text)
ThreadEncode(t) ==
    /\ At(t, "164")
    /\ Goto(t, "165", threads[t].text, FALSE, <<EncodeAt(threads[t].text, now)>>)
    /\ UNCHANGED <<pvars, cache, now, last, recent, op, jobs, candidates, min_score,
                   matches, results, rule_out>>

\* lines 165-167: self._embedding_cache[cache_key] = embedding; return it
ThreadStore(t) ==
    /\ At(t, "165")
    /\ cache' = CacheSetItem(cache, now, GetTextHash(threads[t].text),
                             threads[t].value[1])
    /\ Goto(t, "return", threads[t].text, FALSE, threads[t].value)
    /\ UNCHANGED <<pvars, now, last, recent, op, jobs, candidates, min_score,
                   matches, results, rule_out>>

\* the caller has the tensor, or the KeyError
ThreadReturn(t) ==
    /\ At(t, "return")
    /\ threads' = [threads EXCEPT ![t] = Idle]
    /\ UNCHANGED <<pvars, cache, now, last, recent, op, jobs, candidates, min_score,
                   matches, results, rule_out>>

\* a thread calls clear_cache()
ThreadClear ==
    /\ cache # <<>>
    /\ cache' = CacheClear(cache, now)
    /\ UNCHANGED <<pvars, now, last, recent, threads, op, jobs, candidates, min_score,
                   matches, results, rule_out>>

ThreadTick ==
    /\ now < MaxTime
    /\ now' = now + 1
    /\ UNCHANGED <<pvars, cache, last, recent, threads, op, jobs, candidates,
                   min_score, matches, results, rule_out>>

ThreadNext ==
    \/ \E t \in Threads : ThreadCall(t)
    \/ \E t \in Threads : ThreadTest(t)
    \/ \E t \in Threads : ThreadRead(t)
    \/ \E t \in Threads : ThreadEncode(t)
    \/ \E t \in Threads : ThreadStore(t)
    \/ \E t \in Threads : ThreadReturn(t)
    \/ ThreadClear
    \/ ThreadTick

ThreadSpec == Init /\ [][ThreadNext]_vars

\* ------------------------------------------------------------------------
\* Ranking calls of one service, with its cache and its clock
\* ------------------------------------------------------------------------
\* the job and the candidates of the calls
CachedJob ==
    Job(<<"x">>, <<"a">>, None, None, << <<"P">> >>, <<>>, <<>>, "Retail",
        "Full Time", <<>>, FALSE, FALSE)

CachedCandidates ==
    {Candidate(name, <<" ", "A">>, << <<"p">> >>, <<>>, << <<"e", "n">> >>,
               <<>>, FALSE, FALSE, NoneStr, 1) : name \in {<<"x">>, <<"y">>}}

\* collections of one candidate and of two different candidates
CachedBatches ==
    {<<a>> : a \in CachedCandidates}
    \cup {<<a, b>> : a \in {c \in CachedCandidates : c.name = <<"x">>},
                     b \in {c \in CachedCandidates : c.name = <<"y">>}}

\* _calculate_semantic_score after its lookups: a lookup that raised gives
\* 0.0
SemanticOf(job_out, cand_out) ==
    IF job_out.raised \/ cand_out.raised THEN 0
    ELSE ClampSimilarity(pytorch_cos_sim(job_out.value[1].vec,
                                         cand_out.value[1].vec))

\* the cache, the clock and the semantic score after a pair
AfterPair(c, t, semantic) == [cache |-> c, now |-> t, semantic |-> semantic]

AfterCandidateText(job_out, cand_out, t) ==
    AfterPair(cand_out.cache, t, SemanticOf(job_out, cand_out))

\* line 216, skipped when the lookup of the job text raised
AfterJobText(job_out, t, candidate, d) ==
    IF job_out.raised THEN AfterPair(job_out.cache, t, 0)
    ELSE AfterCandidateText(
             job_out,
             GetEmbeddingAt(job_out.cache, t, d, BuildCandidateText(candidate)),
             t + d)

\* _calculate_semantic_score(job, candidate) on the cache c at time t, the
\* two lookups with the delays d1 and d2
SemanticThroughCache(c, t, job, candidate, d1, d2) ==
    AfterJobText(GetEmbeddingAt(c, t, d1, BuildJobText(job)), t + d1,
                 candidate, d2)

\* the loop of a ranking call: the semantic scores of the pairs in the
\* order of the collection, each pair on the cache the pair before left
RECURSIVE SemanticsThroughCache(_, _, _, _, _, _)
NextPair(after, job, cs, ds, sems) ==
    SemanticsThroughCache(after.cache, after.now, job, cs, ds,
                          Append(sems, after.semantic))

SemanticsThroughCache(c, t, job, cs, ds, sems) ==
    IF Len(cs) = 0 THEN [cache |-> c, now |-> t, sems |-> sems]
    ELSE NextPair(SemanticThroughCache(c, t, job, cs[1], ds[1], ds[2]),
                  job, Tail(cs), Tail(Tail(ds)), sems)

\* the MatchResult of each pair for its semantic score
MatchesThroughCache(job, cs, sems) ==
    [i \in 1..Len(cs) |->
        MatchOf(job, cs[i], sems[i], CalculateRuleScore(job, cs[i]))]

\* what a call records of its cache and clock: still, the call left both
\* as it found them; ended, the time it returned at; same, the call before
\* left both as it found them and this call started when that one returned,
\* so that the two calls started on the same cache at the same time
CallTimes(same, out) ==
    [same |-> same, still |-> out.cache = cache /\ out.now = now,
     ended |-> out.now]

\* last keeps the call before and what it returned
CallBefore(out) ==
    IF op = "rank_candidates_for_job"
    THEN [NoCall EXCEPT !.name = "rank_candidates_for_job",
                        !.text = <<candidates, min_score>>,
                        !.value = results,
                        !.stats = CallTimes(last.stats.still
                                            /\ last.stats.ended = now, out)]
    ELSE [NoCall EXCEPT !.stats = CallTimes(FALSE, out)]

CachedRankReturns(job, cs, threshold, out) ==
    /\ out.now <= MaxTime
    /\ cache' = out.cache
    /\ now' = out.now
    /\ op' = "rank_candidates_for_job"
    /\ jobs' = <<job>>
    /\ candidates' = cs
    /\ min_score' = threshold
    /\ matches' = MatchesThroughCache(job, cs, out.sems)
    /\ results' = Ranked(MatchesThroughCache(job, cs, out.sems), cs, threshold)
    /\ last' = CallBefore(out)

\* rank_candidates_for_job(job, candidates, min_score) on the cache of the
\* service
CachedRank ==
    /\ UNCHANGED <<pvars, recent, threads, rule_out>>
    /\ \E batch \in CachedBatches, threshold \in {0, MIN_MATCH_SCORE * One} :
        \E ds \in [1..(2 * Len(batch)) -> Delays] :
            CachedRankReturns(CachedJob, WithIds(batch), threshold,
                              SemanticsThroughCache(cache, now, CachedJob,
                                                    WithIds(batch), ds, <<>>))

\* time passes between two ranking calls
RankTick ==
    /\ now < MaxTime
    /\ now' = now + 1
    /\ UNCHANGED <<pvars, cache, last, recent, threads, op, jobs, candidates,
                   min_score, matches, results, rule_out>>

RankNext ==
    \/ CachedRank
    \/ RankTick

RankSpec == Init /\ [][RankNext]_vars

\* ------------------------------------------------------------------------
\* The scorers of the requirements and of the languages on their own
\* ------------------------------------------------------------------------
\* the most entries of an experience list, and of a language list
MaxExperience == 2
MaxLanguages == 2

\* experience entries; "p a" contains the requirement "p"
ExperienceEntries == {<<"p">>, <<"p", " ", "a">>, <<"a">>}

\* requirement lists; "p q" is two words
ScoredRequirements ==
    {<< <<"p">> >>, << <<"p">>, <<"p", " ", "q">> >>, << <<"A">> >>}

\* languages as they are typed: in either case, with a blank after
LanguagePool == {<<"E", "n">>, <<"e", "n", " ">>, <<"H", "e">>, <<"a", "r">>}

ScoredJob(requirements, required_languages) ==
    Job(<<"x">>, <<"a">>, None, None, requirements, <<>>, required_languages,
        "Retail", "Full Time", <<>>, FALSE, FALSE)

ScoredCandidate(experience, skills, languages) ==
    Candidate(<<"x">>, <<"a">>, experience, skills, languages, <<>>, FALSE,
              FALSE, NoneStr, 1)

\* a scorer touches neither the rankings nor the cache
ScorerFrame ==
    UNCHANGED <<pvars, min_score, matches, results, cache, now, recent, threads>>

\* the state a call of a scorer leaves: last keeps the result of the call
\* before on the same job when the candidate was edited (entry), and
\* nothing otherwise
ScorerReturns(name, job, candidate, result, before) ==
    /\ op' = name
    /\ jobs' = <<job>>
    /\ candidates' = <<candidate>>
    /\ rule_out' = {result}
    /\ last' = before

\* _score_requirements(job, candidate)
ScoreRequirementsCall ==
    /\ op = "idle"
    /\ ScorerFrame
    /\ \E requirements \in ScoredRequirements,
          experience \in {<<>>} \cup {<<e>> : e \in ExperienceEntries},
          skills \in {<<>>, << <<"q">> >>} :
        ScorerReturns("_score_requirements", ScoredJob(requirements, <<>>),
                      ScoredCandidate(experience, skills, <<>>),
                      ScoreRequirements(ScoredJob(requirements, <<>>),
                                        ScoredCandidate(experience, skills, <<>>)),
                      NoCall)

\* the candidate with one more entry of experience
WithExperience(candidate, entry) ==
    [candidate EXCEPT !.experience = Append(@, entry)]

\* _score_requirements(job, candidate) again, for the same job and the
\* candidate of the call before with one more entry of experience
ScoreRequirementsAgain ==
    /\ op = "_score_requirements"
    /\ Len(candidates[1].experience) < MaxExperience
    /\ ScorerFrame
    /\ \E entry \in ExperienceEntries :
        ScorerReturns("_score_requirements", jobs[1],
                      WithExperience(candidates[1], entry),
                      ScoreRequirements(jobs[1],
                                        WithExperience(candidates[1], entry)),
                      [NoCall EXCEPT !.name = "_score_requirements",
                                     !.text = entry,
                                     !.value = rule_out])

\* _score_languages(job, candidate)
ScoreLanguagesCall ==
    /\ op = "idle"
    /\ ScorerFrame
    /\ \E required_languages \in SeqsUpTo(LanguagePool, MaxLanguages),
          languages \in SeqsUpTo(LanguagePool, MaxLanguages) :
        ScorerReturns("_score_languages", ScoredJob(<<>>, required_languages),
                      ScoredCandidate(<<>>, <<>>, languages),
                      ScoreLanguages(ScoredJob(<<>>, required_languages),
                                     ScoredCandidate(<<>>, <<>>, languages)),
                      NoCall)

\* CategoryMatchingStrategy(job, candidate).score_availability()
ScoreAvailabilityCall ==
    /\ op = "idle"
    /\ ScorerFrame
    /\ \E shift_work \in BOOLEAN, weekend_work \in BOOLEAN,
          shifts \in BOOLEAN, weekends \in BOOLEAN :
        ScorerReturns("score_availability",
                      Job(<<"x">>, <<"a">>, None, None, <<>>, <<>>, <<>>,
                          "Retail", "Full Time", <<>>, shift_work, weekend_work),
                      Candidate(<<"x">>, <<"a">>, <<>>, <<>>, <<>>, <<>>,
                                shifts, weekends, NoneStr, 1),
                      ScoreAvailability(
                          Job(<<"x">>, <<"a">>, None, None, <<>>, <<>>, <<>>,
                              "Retail", "Full Time", <<>>, shift_work, weekend_work),
                          Candidate(<<"x">>, <<"a">>, <<>>, <<>>, <<>>, <<>>,
                                    shifts, weekends, NoneStr, 1)),
                      NoCall)

\* the caller takes the result
ScorerReturn ==
    /\ op # "idle"
    /\ op' = "idle"
    /\ jobs' = <<>>
    /\ candidates' = <<>>
    /\ rule_out' = {}
    /\ last' = NoCall
    /\ ScorerFrame

ScorerNext ==
    \/ ScoreRequirementsCall
    \/ ScoreRequirementsAgain
    \/ ScoreLanguagesCall
    \/ ScoreAvailabilityCall
    \/ ScorerReturn

ScorerSpec == Init /\ [][ScorerNext]_vars

\* ------------------------------------------------------------------------
\* Properties of the embedding cache
\* ------------------------------------------------------------------------
\* the step is the call _get_embedding(text) with delay d
IsLookup(text, d) ==
    /\ now + d <= MaxTime
    /\ now' = now + d
    /\ last'.name = "_get_embedding"
    /\ last'.text = text
    /\ LookupReturns(text, d, GetEmbeddingAt(cache, now, d, text))

\* the links of a cache, whatever their order and whether they were read
Links(c) == {[key |-> c[i].key, value |-> c[i].value, expires |-> c[i].expires] :
               i \in DOMAIN c}

\* a miss: the provider is invoked once and its tensor is returned and
\* stored under the hash of the text
MissStores(text) ==
    /\ last'.invoked = 1
    /\ ~last'.raised
    /\ last'.value = <<EncodeAt(text, now')>>
    /\ GetTextHash(text) \in Keys(cache')
    /\ <<LinkOf(cache', GetTextHash(text)).value>> = last'.value

\* a hit: the provider is not invoked, the cache keeps its links and the
\* tensor returned is the one stored
HitReturnsStored(text) ==
    /\ last'.invoked = 0
    /\ ~last'.raised
    /\ last'.value = <<LinkOf(cache, GetTextHash(text)).value>>
    /\ Links(cache') = Links(cache)
    /\ Len(cache') = Len(cache)
    /\ CacheLen(cache', now') = CacheLen(cache, now')

\* the key of the text has a link that has not expired at time t
Cached(text, t) ==
    \E i \in DOMAIN cache :
        cache[i].key = GetTextHash(text) /\ t < cache[i].expires

\* C11: a lookup of a text that is not in the cache invokes the provider
\* once, stores the tensor under the hash of the text and returns it; a
\* lookup of a text that is in the cache and does not expire before it is
\* read invokes nothing, leaves the size of the cache as it is and returns
\* the stored tensor.
C11_LookupThroughCache ==
    [][\A text \in Texts, d \in Delays :
          IsLookup(text, d) =>
             /\ ~(\E i \in DOMAIN cache : cache[i].key = GetTextHash(text))
                   => MissStores(text)
             /\ Cached(text, now + d) => HitReturnsStored(text)]_vars

\* a second lookup returned the tensor stored by the first, some time
\* before, from a full cache
C11_Witness ==
    /\ last.name = "_get_embedding"
    /\ last.invoked = 0
    /\ ~last.raised
    /\ Len(cache) = CACHE_SIZE
    /\ \E i \in DOMAIN cache :
         /\ cache[i].key = GetTextHash(last.text)
         /\ <<cache[i].value>> = last.value
         /\ cache[i].value.at < now

\* C12: whatever lookups and clears one service has run, its cache has at
\* most CACHE_SIZE entries, counted as links and as get_cache_stats counts.
C12_SizeBounded ==
    /\ Len(cache) <= CACHE_SIZE
    /\ CacheLen(cache, now) <= CACHE_SIZE
    /\ \A i \in DOMAIN last.stats : last.stats[i].cache_size <= CACHE_SIZE

\* a lookup stored a text in a cache that was full: an entry was popped
\* and the cache is full again
C12_Witness ==
    /\ last.name = "_get_embedding"
    /\ last.invoked = 1
    /\ last.popped # {}
    /\ CacheLen(cache, now) = CACHE_SIZE

\* the key of the text has a link that expired at time t or before
Elapsed(text, t) ==
    \E i \in DOMAIN cache :
        cache[i].key = GetTextHash(text) /\ ~(t < cache[i].expires)

\* C13: a lookup of a text whose entry has outlived its time-to-live is a
\* miss, whether the entry was read in the meantime or not: the provider
\* is invoked again and the new tensor is stored and returned.  No read
\* extends the life of an entry: it ends CACHE_TTL after the store.
C13_ExpiryRecomputes ==
    [][/\ \A text \in Texts, d \in Delays :
             (IsLookup(text, d) /\ Elapsed(text, now))
                => /\ MissStores(text)
                   /\ LinkOf(cache', GetTextHash(text)).expires = now' + CACHE_TTL
       /\ \A i \in DOMAIN cache' :
             cache'[i].expires = cache'[i].value.at + CACHE_TTL]_vars

\* a lookup recomputed the tensor of a text whose expired entry had been
\* read while it lived
C13_Witness ==
    /\ last.name = "_get_embedding"
    /\ last.invoked = 1
    /\ \E l \in last.stale :
         /\ l.used
         /\ ~(now < l.expires)
         /\ \A i \in DOMAIN last.value : l.value.at < last.value[i].at
    /\ \E i \in DOMAIN cache :
         cache[i].key = GetTextHash(last.text) /\ <<cache[i].value>> = last.value

\* the keys of the entries that have not expired at time t, in the order
\* of their last use
LiveByUse(t) == SelectSeq(recent, LAMBDA k : k \in Keys(Expire(cache, t)))

\* C19: a lookup that stores a new text in a cache full of entries that
\* have not expired evicts one entry: the one whose last use, a hit or its
\* insert, is the oldest.
C19_EvictsLeastRecentlyUsed ==
    [][\A text \in Texts, d \in Delays :
          (/\ IsLookup(text, d)
           /\ GetTextHash(text) \notin Keys(Expire(cache, now + d))
           /\ ~Cached(text, now)
           /\ Len(Expire(cache, now + d)) = CACHE_SIZE)
          => /\ Len(LiveByUse(now + d)) = CACHE_SIZE
             /\ Keys(cache') = (Keys(Expire(cache, now + d))
                                  \ {Head(LiveByUse(now + d))})
                               \cup {GetTextHash(text)}]_vars

\* an eviction that spared an entry stored before the evicted one, because
\* it was read since
C19_Witness ==
    /\ last.name = "_get_embedding"
    /\ \E p \in last.popped :
         \E i \in DOMAIN cache :
            /\ cache[i].key # GetTextHash(last.text)
            /\ cache[i].value.at < p.value.at
            /\ cache[i].used
            /\ now < cache[i].expires

\* C20: clear_cache leaves an empty cache; get_cache_stats called next
\* reports size 0 with the capacity and the time-to-live of the service,
\* and the next lookup of any text invokes the provider again.
C20_ClearEmpties ==
    [][/\ last'.name = "clear_cache"
            => /\ cache' = <<>>
               /\ CacheStats(cache', now').cache_size = 0
       /\ (last.name = "clear_cache" /\ last'.name = "get_cache_stats")
            => last'.stats = <<[cache_size |-> 0, cache_maxsize |-> CACHE_SIZE,
                                cache_ttl |-> CACHE_TTL]>>
       /\ \A text \in Texts, d \in Delays :
             (last.name = "clear_cache" /\ IsLookup(text, d))
                => MissStores(text)]_vars

\* clear_cache has emptied a full cache of entries that had not expired
C20_Witness ==
    /\ last.name = "clear_cache"
    /\ cache = <<>>
    /\ Cardinality({l \in last.popped : now < l.expires}) = CACHE_SIZE

\* C14 (as claimed): whatever the interleaving of the lookups and clears
\* of the threads that share a service, no lookup raises, every lookup
\* returns the tensor of its own text, and the cache has at most
\* CACHE_SIZE entries.
C14_Claim ==
    /\ \A t \in Threads :
         At(t, "return") =>
            /\ ~threads[t].raised
            /\ \E i \in DOMAIN threads[t].value :
                 threads[t].value[i].vec = Encode(threads[t].text).vec
    /\ Len(cache) <= CACHE_SIZE

\* C15 (as claimed): two ranking calls of one service with the same job,
\* the same collection and the same min_score return the same list: the
\* same counterparts in the same order with the same scores. The embedding
\* provider is deterministic, and the two calls compared here even start
\* on the same cache at the same time.
C15_Claim ==
    (/\ op = "rank_candidates_for_job"
     /\ last.name = "rank_candidates_for_job"
     /\ last.text = <<candidates, min_score>>
     /\ last.stats.same)
    => last.value = results

\* ------------------------------------------------------------------------
\* Properties of the scorers
\* ------------------------------------------------------------------------
\* the entry added to the experience contains one of the requirements
EntryContainsRequirement ==
    \E i \in DOMAIN jobs[1].requirements :
        contains(last.text, jobs[1].requirements[i])

\* C16 (as claimed): adding to the candidate's experience an entry that
\* contains one of the job's requirements, everything else held fixed,
\* never decreases requirements_match.
C16_Claim ==
    (/\ op = "_score_requirements"
     /\ last.name = "_score_requirements"
     /\ EntryContainsRequirement)
    => \A before \in last.value, after \in rule_out :
           after.score >= before.score

\* two languages are the same when they differ in case and in blanks
\* around them only
SameLanguage(a, b) == strip(lower(a)) = strip(lower(b))

\* the required languages, each one once, and those of them the candidate
\* speaks
RequiredOnce(req) ==
    {i \in DOMAIN req : \A j \in 1..(i - 1) : ~SameLanguage(req[j], req[i])}
SpokenOf(req, langs) ==
    {i \in RequiredOnce(req) : \E j \in DOMAIN langs : SameLanguage(langs[j], req[i])}

LanguageScoreIs(result, req, langs) ==
    /\ ~result.exc
    /\ IF Len(req) = 0
       THEN /\ result.score = 0
            /\ result.text = <<"No language requirements">>
       ELSE /\ result.score * Cardinality(RequiredOnce(req))
                = Cardinality(SpokenOf(req, langs)) * One
            /\ (SpokenOf(req, langs) = RequiredOnce(req))
                   <=> (result.text = <<"Speaks all required languages">>)
            /\ (SpokenOf(req, langs) = {})
                   <=> (result.text = <<"Missing required languages">>)
            /\ (SpokenOf(req, langs) \notin {{}, RequiredOnce(req)})
                   <=> (/\ result.text = <<"Speaks required languages">>
                        /\ result.args = <<Cardinality(SpokenOf(req, langs)),
                                           Cardinality(RequiredOnce(req))>>)

\* C17: if the job requires no languages the language score is 0.0;
\* otherwise it is the number of required languages the candidate speaks
\* over the number of required languages (each counted once, compared
\* without case), with one reason for a full match, another for a partial
\* match, which reports matched/required, and another for no match.
C17_LanguageScore ==
    (op = "_score_languages")
    => \A result \in rule_out :
           LanguageScoreIs(result, jobs[1].required_languages,
                           candidates[1].languages)

\* required ["En", "He"], candidate ["en "]: 0.5 and "1/2"
C17_Witness ==
    /\ op = "_score_languages"
    /\ jobs[1].required_languages = << <<"E", "n">>, <<"H", "e">> >>
    /\ candidates[1].languages = << <<"e", "n", " ">> >>
    /\ \E result \in rule_out :
        /\ 2 * result.score = One
        /\ result.args = <<1, 2>>

\* the job asks for an availability the candidate does not have
Unavailable(job, candidate) ==
    \/ job.shift_work /\ ~candidate.willing_to_work_shifts
    \/ job.weekend_work /\ ~candidate.willing_to_work_weekends

\* C24: the availability score is 0.0 when the job requires shift work or
\* weekend work the candidate is unwilling to do, and 1.0 otherwise (0.5
\* for each dimension, satisfied or not required); it is never 0.5.
C24_AvailabilityScore ==
    (op = "score_availability")
    => \A result \in rule_out :
           /\ ~result.exc
           /\ result.score = IF Unavailable(jobs[1], candidates[1]) THEN 0 ELSE One
           /\ 2 * result.score # One

\* shifts required and accepted, weekends not required and not accepted:
\* 1.0
C24_Witness ==
    /\ op = "score_availability"
    /\ jobs[1].shift_work /\ candidates[1].willing_to_work_shifts
    /\ ~jobs[1].weekend_work /\ ~candidates[1].willing_to_work_weekends
    /\ \E result \in rule_out : result.score = One

\* C28 (as claimed): a lookup on a service used by one thread returns a
\* vector for its text whenever the provider does not fail, even when the
\* entry reaches its time-to-live between the membership test and the read.
C28_Claim ==
    (last.name = "_get_embedding" /\ ~Encode(last.text).exc)
    => /\ ~last.raised
       /\ \E v \in SetOfSeq(last.value) : v.vec = Encode(last.text).vec

\* ------------------------------------------------------------------------
\* The lookups of a ranking call
\* ------------------------------------------------------------------------
\* the titles of the jobs and the names of the candidates ranked; the
\* provider fails on the text of the entity "!"
BatchNames == {<<"x">>, <<"y">>, <<"z">>}
AnchorNames == {<<"x">>, <<"!">>}

BatchJob(title) ==
    Job(title, <<"a">>, None, None, << <<"P">> >>, <<>>, <<>>, "Retail",
        "Full Time", <<>>, FALSE, FALSE)

BatchCandidate(name) ==
    Candidate(name, <<" ", "A">>, << <<"p">> >>, <<>>, << <<"e", "n">> >>,
              <<>>, FALSE, FALSE, NoneStr, 1)

\* the collections of up to n counterparts with pairwise different texts
DistinctSeqs(S, n) ==
    {s \in SeqsUpTo(S, n) : \A i \in DOMAIN s : \A j \in DOMAIN s :
        i # j => s[i] # s[j]}

\* _get_embedding(text) on the cache c at time t, no time passing inside
Looked(c, t, text) == [text |-> text, out |-> GetEmbeddingAt(c, t, 0, text)]

\* lines 215-216 of _calculate_semantic_score: the lookup of the job text,
\* then that of the candidate text unless the first raised
AfterJobLookup(first, t, candidate) ==
    IF first.out.raised THEN <<first>>
    ELSE <<first, Looked(first.out.cache, t, BuildCandidateText(candidate))>>

PairLookups(c, t, job, candidate) ==
    AfterJobLookup(Looked(c, t, BuildJobText(job)), t, candidate)

\* the loop of a ranking call over its pairs <<job, candidate>>: the
\* lookups of each pair, on the cache the pair before left
RECURSIVE CallLookups(_, _, _, _)
AfterPairLookups(pl, t, pairs, done) ==
    CallLookups(pl[Len(pl)].out.cache, t, pairs, Append(done, pl))

CallLookups(c, t, pairs, done) ==
    IF Len(pairs) = 0 THEN done
    ELSE AfterPairLookups(PairLookups(c, t, pairs[1][1], pairs[1][2]), t,
                          Tail(pairs), done)

\* the semantic score of a pair for its lookups
PairSemantic(pl) ==
    IF Len(pl) < 2 THEN 0 ELSE SemanticOf(pl[1].out, pl[2].out)

\* the lookups of the call one after the other: of each the text, whether
\* it raised, whether it called the provider and the keys it evicted
RECURSIVE LookupTrace(_)
LookupTrace(pls) ==
    IF Len(pls) = 0 THEN <<>>
    ELSE [i \in DOMAIN pls[1] |->
             [text |-> pls[1][i].text, raised |-> pls[1][i].out.raised,
              invoked |-> pls[1][i].out.invoked,
              popped |-> {l.key : l \in pls[1][i].out.popped}]]
         \o LookupTrace(Tail(pls))

\* the MatchResult of each pair for the semantic score of its lookups
MatchesOfLookups(pairs, pls) ==
    [i \in DOMAIN pairs |->
        MatchOf(pairs[i][1], pairs[i][2], PairSemantic(pls[i]),
                CalculateRuleScore(pairs[i][1], pairs[i][2]))]

\* the state a ranking call with min_score 0 leaves: the cache after its
\* last lookup and what it returns; last keeps the anchor text, the number
\* of counterparts and the lookups
BatchReturns(name, js, cs, anchor_text, pairs, counterparts, pls) ==
    /\ op' = name
    /\ jobs' = js
    /\ candidates' = cs
    /\ min_score' = 0
    /\ matches' = MatchesOfLookups(pairs, pls)
    /\ results' = Ranked(MatchesOfLookups(pairs, pls), counterparts, 0)
    /\ cache' = IF Len(pls) = 0 THEN cache
                ELSE pls[Len(pls)][Len(pls[Len(pls)])].out.cache
    /\ last' = [NoCall EXCEPT !.name = name, !.text = anchor_text,
                              !.value = LookupTrace(pls),
                              !.stats = Len(counterparts)]
    /\ UNCHANGED <<pvars, now, recent, threads, rule_out>>

PairsOfJob(job, cs) == [i \in DOMAIN cs |-> <<job, cs[i]>>]
PairsOfCandidate(candidate, js) == [i \in DOMAIN js |-> <<js[i], candidate>>]

\* rank_candidates_for_job(job, candidates) on the cache of the service
BatchRankCandidates ==
    /\ op = "idle"
    /\ \E title \in AnchorNames, names \in DistinctSeqs(BatchNames, MaxBatch) :
        BatchReturns("rank_candidates_for_job", <<BatchJob(title)>>,
                     WithIds([i \in DOMAIN names |-> BatchCandidate(names[i])]),
                     BuildJobText(BatchJob(title)),
                     PairsOfJob(BatchJob(title),
                                WithIds([i \in DOMAIN names |->
                                            BatchCandidate(names[i])])),
                     WithIds([i \in DOMAIN names |-> BatchCandidate(names[i])]),
                     CallLookups(cache, now,
                                 PairsOfJob(BatchJob(title),
                                            WithIds([i \in DOMAIN names |->
                                                BatchCandidate(names[i])])),
                                 <<>>))

\* rank_jobs_for_candidate(candidate, jobs) on the cache of the service
BatchRankJobs ==
    /\ op = "idle"
    /\ \E name \in AnchorNames, titles \in DistinctSeqs(BatchNames, MaxBatch) :
        BatchReturns("rank_jobs_for_candidate",
                     WithIds([i \in DOMAIN titles |-> BatchJob(titles[i])]),
                     <<BatchCandidate(name)>>,
                     BuildCandidateText(BatchCandidate(name)),
                     PairsOfCandidate(BatchCandidate(name),
                                      WithIds([i \in DOMAIN titles |->
                                                  BatchJob(titles[i])])),
                     WithIds([i \in DOMAIN titles |-> BatchJob(titles[i])]),
                     CallLookups(cache, now,
                                 PairsOfCandidate(BatchCandidate(name),
                                     WithIds([i \in DOMAIN titles |->
                                                 BatchJob(titles[i])])),
                                 <<>>))

\* the caller takes the result: the service is idle again, with its cache,
\* and the clock has moved on when the next call starts; the last call
\* starts when the entries of the first have expired
BatchReturn ==
    /\ op # "idle"
    /\ now < CACHE_TTL
    /\ now' = now + 1
    /\ op' = "idle"
    /\ jobs' = <<>>
    /\ candidates' = <<>>
    /\ min_score' = 0
    /\ matches' = <<>>
    /\ results' = <<>>
    /\ last' = NoCall
    /\ UNCHANGED <<pvars, cache, recent, threads, rule_out>>

BatchNext ==
    \/ BatchRankCandidates
    \/ BatchRankJobs
    \/ BatchReturn

BatchSpec == Init /\ [][BatchNext]_vars

\* ------------------------------------------------------------------------
\* Properties of the lookups of a ranking call
\* ------------------------------------------------------------------------
\* a ranking call has returned; last.text is the text of its anchor,
\* last.stats the number of its counterparts, last.value its lookups
BatchCall ==
    /\ op \in {"rank_candidates_for_job", "rank_jobs_for_candidate"}
    /\ last.name = op

\* the times the provider was called
RECURSIVE Invocations(_)
Invocations(trace) ==
    IF Len(trace) = 0 THEN 0
    ELSE trace[1].invoked + Invocations(Tail(trace))

\* the lookups of the anchor text
AnchorLookups == {i \in DOMAIN last.value : last.value[i].text = last.text}

\* the provider was called at most once more than there are counterparts,
\* at most once for the anchor text, and after the first lookup of the
\* anchor text no lookup evicted its entry and each lookup of it was a hit
AnchorEmbeddedOnce ==
    /\ Invocations(last.value) <= last.stats + 1
    /\ Cardinality({i \in AnchorLookups : last.value[i].invoked = 1}) <= 1
    /\ \A i \in AnchorLookups : \A k \in DOMAIN last.value :
        k > i => /\ GetTextHash(last.text) \notin last.value[k].popped
                 /\ k \in AnchorLookups => /\ last.value[k].invoked = 0
                                           /\ ~last.value[k].raised

MaxCalls == 5

\* the callers of get_embedding_model: the startup of the application, the
\* readiness endpoint and the constructor of a service without a model
Callers == {"lifespan", "readiness_check", "MatchingService"}

\* a cache that keeps nothing
lru_cache_off(held, model) == held

\* lru_cache(maxsize=1) after the function has returned model; a call that
\* raised leaves the cache as it was
lru_cache_put(held, model) == <<model>>

\* what a call of get_embedding_model returns: the model, or raised; tried
\* says that SentenceTransformer(model_name) was called, failed that it
\* raised; held is the lru_cache after the call
ModelCall(raised, model, tried, failed, held) ==
    [raised |-> raised, model |-> model, tried |-> tried, failed |-> failed,
     held |-> held]

\* get_embedding_model() with the model held in its lru_cache, when the
\* loader was called n times before and loads (ok) or raises now.  The
\* n-th instance the loader builds is n.
GetEmbeddingModel(held, n, ok) ==
    IF held # <<>> THEN ModelCall(FALSE, held, FALSE, FALSE, held)
    ELSE IF ok
    THEN ModelCall(FALSE, <<n + 1>>, TRUE, FALSE, lru_cache_put(held, n + 1))
    ELSE ModelCall(TRUE, <<>>, TRUE, TRUE, held)

\* the process after a call of get_embedding_model by caller
ModelCallReturns(caller, out) ==
    /\ model_cache' = out.held
    /\ loads' = IF out.tried THEN loads + 1 ELSE loads
    /\ calls' = Append(calls, [caller |-> caller, raised |-> out.raised,
                               model |-> out.model, tried |-> out.tried,
                               failed |-> out.failed])
    /\ UNCHANGED <<svars, cvars, requests>>

\* lifespan: the startup warms the model up and raises what the call raised
LifespanReturns(out) ==
    /\ ModelCallReturns("lifespan", out)
    /\ app' = IF out.raised THEN "failed" ELSE "up"

Lifespan ==
    /\ app = "down"
    /\ Len(calls) < MaxCalls
    /\ \E ok \in BOOLEAN :
        LifespanReturns(GetEmbeddingModel(model_cache, loads, ok))

\* readiness_check of the running application: 503 when the call raised
ReadinessCheck ==
    /\ app = "up"
    /\ Len(calls) < MaxCalls
    /\ UNCHANGED app
    /\ \E ok \in BOOLEAN :
        ModelCallReturns("readiness_check",
                         GetEmbeddingModel(model_cache, loads, ok))

\* MatchingService() without a model, before the startup or in a request
\* of the running application: the constructor raises what the call raised
ConstructService ==
    /\ app \in {"down", "up"}
    /\ Len(calls) < MaxCalls
    /\ UNCHANGED app
    /\ \E ok \in BOOLEAN :
        ModelCallReturns("MatchingService",
                         GetEmbeddingModel(model_cache, loads, ok))

LoaderNext ==
    \/ Lifespan
    \/ ReadinessCheck
    \/ ConstructService

LoaderSpec == Init /\ [][LoaderNext]_vars

\* ------------------------------------------------------------------------
\* Properties of the embedding model of the process
\* ------------------------------------------------------------------------
\* the calls that built a model
Loaded == {i \in DOMAIN calls : calls[i].tried /\ ~calls[i].failed}

\* C26: the model is loaded at most once in a process: after a call of
\* get_embedding_model that returned a model, every later call returns
\* that same instance and does not call the loader; a call whose load
\* failed raises and returns no model, a call that did not raise returns a
\* model, and the application whose startup call raised has failed.
C26_LoadedOnce ==
    /\ Cardinality(Loaded) <= 1
    /\ \A i \in DOMAIN calls : \A j \in DOMAIN calls :
        (i < j /\ ~calls[i].raised)
        => /\ ~calls[j].raised
           /\ ~calls[j].tried
           /\ calls[j].model = calls[i].model
    /\ \A i \in DOMAIN calls :
        /\ calls[i].failed => (calls[i].raised /\ calls[i].model = <<>>)
        /\ ~calls[i].raised => calls[i].model # <<>>
        /\ (calls[i].caller = "lifespan" /\ calls[i].raised) => app = "failed"

\* a load failed, a later one built the model at the startup, and a call
\* after that got the model
C26_Witness ==
    /\ app = "up"
    /\ Len(calls) >= 3
    /\ calls[1].failed
    /\ \E i \in DOMAIN calls : calls[i].caller = "lifespan" /\ i \in Loaded
    /\ ~calls[Len(calls)].tried

\* ------------------------------------------------------------------------
\* The requests of the API
\* ------------------------------------------------------------------------
\* the endpoints that use a MatchingService
Endpoints == {"matches", "recommended-jobs", "cache-stats", "clear-cache"}

\* the process after the startup has loaded the model
ApiInit ==
    /\ op = "idle"
    /\ jobs = <<>>
    /\ candidates = <<>>
    /\ min_score = 0
    /\ matches = <<>>
    /\ results = <<>>
    /\ rule_out = {}
    /\ CacheInit
    /\ app = "up"
    /\ model_cache = GetEmbeddingModel(<<>>, 0, TRUE).held
    /\ loads = 1
    /\ calls = <<>>
    /\ requests = [r \in Requests |-> NoRequest]

\* the caches of the services of the requests in flight
Services(reqs) ==
    {reqs[r].cache : r \in {q \in Requests : reqs[q].pc # "none"}}

\* a dependency that hands out the cache a service in flight has filled
get_shared_service(alive) ==
    IF \E c \in alive : c # <<>> THEN CHOOSE c \in alive : c # <<>> ELSE <<>>

\* get_matching_service(): MatchingService(), whose _embedding_cache is a
\* new TTLCache, whatever services are in flight
get_matching_service(alive) == <<>>

\* the request arrives and its dependencies are resolved: the endpoints
\* of candidate_matches.py get their service from get_matching_service
Arrive ==
    /\ app = "up"
    /\ UNCHANGED <<svars, cvars, app, model_cache, loads, calls>>
    /\ \E r \in Requests, e \in Endpoints :
        /\ requests[r].pc = "none"
        /\ requests' =
             [requests EXCEPT ![r] =
                 [NoRequest EXCEPT
                     !.pc = "ready", !.endpoint = e,
                     !.cache = IF e = "recommended-jobs" THEN <<>>
                               ELSE get_matching_service(Services(requests))]]

\* the candidate of the ranking requests, and the response for the jobs
\* ranked: the jobs evaluated and the matches at or above MIN_MATCH_SCORE
RequestCandidate == BatchCandidate(<<"x">>)

RankingResponse(js, pls) ==
    [status |-> 200, total_jobs_evaluated |-> Len(js),
     matches_found |->
         Len(Ranked(MatchesOfLookups(PairsOfCandidate(RequestCandidate, js),
                                     pls),
                    js, MIN_MATCH_SCORE * One))]

\* the request after matcher.rank_jobs_for_candidate(candidate, jobs)
AfterRanking(req, c, js, pls) ==
    [req EXCEPT !.pc = "done",
                !.cache = IF Len(pls) = 0 THEN c
                          ELSE pls[Len(pls)][Len(pls[Len(pls)])].out.cache,
                !.lookups = LookupTrace(pls),
                !.response = RankingResponse(js, pls)]

RanksJobs(r, c, js) ==
    requests' =
        [requests EXCEPT ![r] =
            AfterRanking(requests[r], c, js,
                         CallLookups(c, now,
                                     PairsOfCandidate(RequestCandidate, js),
                                     <<>>))]

\* match_jobs_for_candidate: the jobs of the repository ranked by the
\* service of the request
MatchJobsForCandidate ==
    /\ UNCHANGED <<svars, cvars, app, model_cache, loads, calls>>
    /\ \E r \in Requests, titles \in DistinctSeqs(BatchNames, MaxBatch) :
        /\ requests[r].pc = "ready"
        /\ requests[r].endpoint = "matches"
        /\ RanksJobs(r, requests[r].cache,
                     WithIds([i \in DOMAIN titles |-> BatchJob(titles[i])]))

\* recommended_jobs_for_candidate: matcher = MatchingService() in the body
RecommendedJobsForCandidate ==
    /\ UNCHANGED <<svars, cvars, app, model_cache, loads, calls>>
    /\ \E r \in Requests, titles \in DistinctSeqs(BatchNames, MaxBatch) :
        /\ requests[r].pc = "ready"
        /\ requests[r].endpoint = "recommended-jobs"
        /\ RanksJobs(r, <<>>,
                     WithIds([i \in DOMAIN titles |-> BatchJob(titles[i])]))

\* GET /matching/cache-stats
CacheStatsEndpoint ==
    /\ UNCHANGED <<svars, cvars, app, model_cache, loads, calls>>
    /\ \E r \in Requests :
        /\ requests[r].pc = "ready"
        /\ requests[r].endpoint = "cache-stats"
        /\ requests' =
             [requests EXCEPT ![r].pc = "done",
                              ![r].response =
                                  [cache_enabled |-> TRUE,
                                   stats |-> CacheStats(requests[r].cache,
                                                        now)]]

\* POST /matching/clear-cache
ClearCacheEndpoint ==
    /\ UNCHANGED <<svars, cvars, app, model_cache, loads, calls>>
    /\ \E r \in Requests :
        /\ requests[r].pc = "ready"
        /\ requests[r].endpoint = "clear-cache"
        /\ requests' =
             [requests EXCEPT ![r].pc = "done",
                              ![r].cache = CacheClear(requests[r].cache, now),
                              ![r].response =
                                  [message |-> "Cache cleared successfully"]]

\* the response is sent and the service of the request is dropped
Finish ==
    /\ UNCHANGED <<svars, cvars, app, model_cache, loads, calls>>
    /\ \E r \in Requests :
        /\ requests[r].pc = "done"
        /\ requests' = [requests EXCEPT ![r] = NoRequest]

\* time passes
ApiTick ==
    /\ now < MaxTime
    /\ now' = now + 1
    /\ UNCHANGED <<pvars, cache, last, recent, threads, op, jobs, candidates,
                   min_score, matches, results, rule_out>>

ApiNext ==
    \/ Arrive
    \/ MatchJobsForCandidate
    \/ RecommendedJobsForCandidate
    \/ CacheStatsEndpoint
    \/ ClearCacheEndpoint
    \/ Finish
    \/ ApiTick

ApiSpec == ApiInit /\ [][ApiNext]_vars

\* ------------------------------------------------------------------------
\* Properties of the requests of the API
\* ------------------------------------------------------------------------
\* the lookup k of a request was a hit
HitOf(req, k) == req.lookups[k].invoked = 0 /\ ~req.lookups[k].raised

\* the request itself embedded the text of its lookup k before
OwnEmbedding(req, k) ==
    \E i \in DOMAIN req.lookups :
        /\ i < k
        /\ req.lookups[i].text = req.lookups[k].text
        /\ req.lookups[i].invoked = 1
        /\ ~req.lookups[i].raised

\* a request that has its service and has not used it has an empty cache,
\* a hit of a request is a hit on an embedding the request computed, and
\* the cache-stats endpoint reports cache_size 0
IsolatedCaches ==
    \A r \in Requests :
        /\ requests[r].pc = "ready" => requests[r].cache = <<>>
        /\ \A k \in DOMAIN requests[r].lookups :
            HitOf(requests[r], k) => OwnEmbedding(requests[r], k)
        /\ (requests[r].pc = "done" /\ requests[r].endpoint = "cache-stats")
           => requests[r].response.stats.cache_size = 0

\* a step of the clear-cache endpoint, or the arrival of a request, leaves
\* the cache of every other request as it is
OthersUnchanged ==
    \A r \in Requests :
        (requests'[r].pc # requests[r].pc
         /\ requests'[r].pc \in {"ready", "done"})
        => \A q \in Requests \ {r} : requests'[q] = requests[q]

\* C30: every request that uses the matcher has a new MatchingService with
\* an empty embedding cache: no request gets a hit for an embedding that
\* another request computed, the cache-stats endpoint always reports
\* cache_size 0, and the clear-cache endpoint (as every step of a request)
\* leaves the cache of every other request unchanged.
C30_IsolatedCaches == [](IsolatedCaches) /\ [][OthersUnchanged]_vars

\* a request has ranked jobs with hits on its own embeddings and its
\* service holds them, while the cache-stats request has reported 0 or the
\* clear-cache request has cleared its own cache
C30_Witness ==
    \E r \in Requests : \E q \in Requests \ {r} :
        /\ requests[r].pc = "done"
        /\ requests[r].endpoint = "matches"
        /\ requests[r].cache # <<>>
        /\ \E k \in DOMAIN requests[r].lookups : HitOf(requests[r], k)
        /\ requests[q].pc = "done"
        /\ requests[q].endpoint \in {"cache-stats", "clear-cache"}

====
